---- MODULE Spec2Model ----
(***************************************************************************)
(* A model of actup (pgoslatara/actup): the staleness classifier, the      *)
(* exclusion ledger and the two remediation orchestrators (the CLI         *)
(* command create_prs and PullRequestCreator.create_prs).                  *)
(*                                                                         *)
(* Text is modelled as a sequence of tokens.  A version string is a        *)
(* sequence of one-character tokens (<<"v","1","2">> is "v12"), so that    *)
(* lstrip, split and int act on characters as they do in Python.           *)
(***************************************************************************)
EXTENDS Integers, Sequences, FiniteSets, TLC

VARIABLES
    \* ---- is_major_version_outdated, called on its own
    detected_version,   \* first argument
    latest_version,     \* second argument
    verdict,            \* its outcome: "unset", "true", "false" or "raise"
    \* ---- the text functions (substitutions, extraction), called on their own
    text_args,          \* the content and the arguments of the call
    text_result,        \* what the call produced
    \* ---- the tables of ./actup.duckdb
    popular_actions,          \* the release catalog
    popular_repositories,
    action_usage,             \* the usage batches, loaded by save_used_actions
    outdated_actions,         \* the classification result
    action_tags,              \* the tag index
    pull_request_exclusions,  \* the exclusion ledger
    pull_requests,            \* the PR status ledger
    \* ---- files
    usage_files,        \* temp_dir/action_usage/<repo>/actions_used.json, per repository
    tracker,            \* the rows of PR_TRACKER.md
    pr_dir,             \* temp_dir/pr/<repo>: the working checkout, per repository
    \* ---- the source-control platform
    upstream,           \* the workflow files of each repository
    github_prs,         \* the open pull requests of each repository
    login,              \* the login of the authenticated user
    \* ---- one Database handle
    db_cache,           \* what @cache holds for get_popular_actions on the handle
    db_calls,           \* history: the calls made on the handle
    db_result,          \* the outcome of the last call on the handle
    \* ---- create_branch, called on its own
    clock,              \* int(datetime.now().timestamp()): the current whole second
    branches,           \* history: the branches created, in order
    \* ---- fetch_repos and scan_repos with their worker pools
    temp_files,         \* temp_dir: the sparse checkouts and the usage files
    pool,               \* the task of each repository handed to the Pool
    accesses,           \* history: the paths the tasks of the running command touched
    \* ---- create_prs and create_pr_for_repo, called on one PullRequestCreator
    creator_call,       \* the call in progress, or the last one, and the calls made
    \* ---- the orchestrator that is running
    entry,              \* "none", "cli" (the command create_prs) or "creator"
    pc,                 \* the step that is next
    batch,              \* the mentions the run was started with
    queue,              \* the repositories of repo_updates not yet started
    cur,                \* the repository being processed
    pin_to_sha,         \* PullRequestCreator.pin_to_sha
    mode,               \* PullRequestCreator.mode
    interactive,
    modified_files,
    created_pr,         \* the response of the pull-request creation call
    confirmation,       \* what the operator typed at the prompt
    \* ---- history
    posts,              \* POST requests issued while processing cur, per endpoint
    steps,              \* the pipeline states entered while processing cur
    outcome,            \* how the last per-repository pipeline ended
    last_fault,         \* the call that raised in the last step, "none" if none did
    attempted,          \* the repositories the run has started
    run_end,            \* how the last run ended: "none", "returned" or "raised"
    runs,               \* remediation runs started
    ever_excluded       \* repositories add_repo_to_pr_exclusions was executed for

handleVars == <<db_cache, db_calls, db_result>>

branchVars == <<clock, branches>>

poolVars == <<temp_files, pool, accesses>>

overrideVars == <<creator_call>>

functionVars ==
    <<detected_version, latest_version, verdict, text_args, text_result, handleVars,
      branchVars, poolVars, overrideVars>>

catalogVars ==
    <<popular_actions, popular_repositories, action_usage, outdated_actions,
      action_tags, usage_files>>

ledgerVars == <<pull_request_exclusions, pull_requests, tracker, ever_excluded>>

platformVars == <<upstream, login>>

runVars ==
    <<entry, pc, batch, queue, cur, pin_to_sha, mode, interactive, modified_files, created_pr,
      confirmation,
      posts, steps, outcome, last_fault, attempted, run_end, runs>>

vars ==
    <<functionVars, catalogVars, ledgerVars, platformVars, runVars, pr_dir, github_prs>>

-----------------------------------------------------------------------------
(* Bounds *)

\* Longest version string that is enumerated.
MaxLen == 3

\* Remediation runs (of either orchestrator) in one behaviour.
MaxRuns == 2

\* Most lines of a workflow file handed to a text function on its own.
MaxLines == 2
MaxRows == 3
MaxCalls == 3
MaxPrs == 2
\* Seconds the clock advances, and branches created, when create_branch is
\* called on its own.
MaxClock == 2
MaxBranches == 3

-----------------------------------------------------------------------------
(* Program constants *)

\* @retry(delay=10, tries=5) on GitHubAPIClient._make_request
RetryTries == 5

-----------------------------------------------------------------------------
(* Python's str and int operations, on sequences of one-character tokens *)

\* The value None (an SQL NULL read through the LEFT JOIN of find_outdated_actions),
\* as a one-token sequence that is no string of characters.
None == <<"<None>">>

Digits == {"0", "1", "2", "3", "4", "5", "6", "7", "8", "9"}

DigitValue(c) ==
    CASE c = "0" -> 0 [] c = "1" -> 1 [] c = "2" -> 2 [] c = "3" -> 3 [] c = "4" -> 4
      [] c = "5" -> 5 [] c = "6" -> 6 [] c = "7" -> 7 [] c = "8" -> 8 [] c = "9" -> 9

\* s[i..], the slice of s from index i (1-based) on.
Drop(s, i) == SubSeq(s, i, Len(s))

\* str.lstrip(chars): removes EVERY leading character that is in chars.
RECURSIVE lstrip(_, _)
lstrip(s, chars) ==
    IF s # <<>> /\ Head(s) \in chars THEN lstrip(Tail(s), chars) ELSE s

\* Removes at most one leading character c (what "strip a leading v" reads as).
StripOne(s, c) == IF s # <<>> /\ Head(s) = c THEN Tail(s) ELSE s

\* str.split(sep)[0]: the part of s before the first sep (all of s without one).
RECURSIVE SplitFirst(_, _)
SplitFirst(s, sep) ==
    IF s = <<>> \/ Head(s) = sep THEN <<>>
    ELSE <<Head(s)>> \o SplitFirst(Tail(s), sep)

\* Whether int(s) succeeds, for s over the characters enumerated here: a
\* non-empty run of decimal digits.  (int also accepts a sign, surrounding
\* white space and single underscores between digits; none of these
\* characters is enumerated.)
IsIntLiteral(s) == s # <<>> /\ \A i \in 1..Len(s) : s[i] \in Digits

\* int(s) for such an s: base 10, most significant digit first.
RECURSIVE IntValue(_)
IntValue(s) ==
    IF s = <<>> THEN 0
    ELSE 10 * IntValue(SubSeq(s, 1, Len(s) - 1)) + DigitValue(s[Len(s)])

-----------------------------------------------------------------------------
(* utils.is_major_version_outdated *)

\* int(version.lstrip("v").split(".")[0]) raises ValueError exactly when the
\* first component is no int literal.
MajorComponent(version) == SplitFirst(lstrip(version, {"v"}), ".")

\* A plausible slip: comparing the major components as text, not as numbers.
RECURSIVE LexLess(_, _)
LexLess(a, b) ==
    IF b = <<>> THEN FALSE
    ELSE IF a = <<>> THEN TRUE
    ELSE IF Head(a) # Head(b) THEN DigitValue(Head(a)) < DigitValue(Head(b))
    ELSE LexLess(Tail(a), Tail(b))

is_major_version_outdated_lexicographic(detected, latest) ==
    IF detected = None \/ detected = <<>> \/ latest = None \/ latest = <<>>
    THEN "false"
    ELSE IF IsIntLiteral(MajorComponent(detected)) /\ IsIntLiteral(MajorComponent(latest))
         THEN IF LexLess(MajorComponent(detected), MajorComponent(latest))
              THEN "true" ELSE "false"
         ELSE "false"

\* The outcome of is_major_version_outdated(detected, latest): "true", "false",
\* or "raise" for an exception that leaves the function (there is none: the only
\* exception int raises is the ValueError that is caught).
is_major_version_outdated(detected, latest) ==
    IF detected = None \/ detected = <<>> \/ latest = None \/ latest = <<>>
    THEN "false"
    ELSE IF IsIntLiteral(MajorComponent(detected)) /\ IsIntLiteral(MajorComponent(latest))
         THEN IF IntValue(MajorComponent(detected)) < IntValue(MajorComponent(latest))
              THEN "true" ELSE "false"
         ELSE "false"

-----------------------------------------------------------------------------
(* Python's str.replace, str.find, str.strip and str.lower on token sequences *)

\* s.replace(old, new) for a non-empty old: left to right, non-overlapping.
RECURSIVE Replace(_, _, _)
Replace(s, old, new) ==
    IF Len(s) < Len(old) THEN s
    ELSE IF SubSeq(s, 1, Len(old)) = old
         THEN new \o Replace(Drop(s, Len(old) + 1), old, new)
         ELSE <<Head(s)>> \o Replace(Tail(s), old, new)

\* s.find(pat) >= 0
Contains(s, pat) ==
    \E i \in 1..(Len(s) - Len(pat) + 1) : SubSeq(s, i, i + Len(pat) - 1) = pat

\* s.find(pat) == 0, s.startswith(pat)
StartsWith(s, pat) == Len(s) >= Len(pat) /\ SubSeq(s, 1, Len(pat)) = pat

\* s.endswith(pat)
EndsWith(s, pat) ==
    Len(s) >= Len(pat) /\ SubSeq(s, Len(s) - Len(pat) + 1, Len(s)) = pat

WhiteSpace == {" ", "\t"}

RECURSIVE rstrip(_, _)
rstrip(s, chars) ==
    IF s # <<>> /\ s[Len(s)] \in chars THEN rstrip(SubSeq(s, 1, Len(s) - 1), chars) ELSE s

\* str.strip()
strip(s) == rstrip(lstrip(s, WhiteSpace), WhiteSpace)

\* str.lower() of one token: the tokens written with capitals, and their lower case.
LowerToken(t) ==
    CASE t = "Bump" -> "bump" [] t = "Pin" -> "pin" [] t = "SHA" -> "sha"
      [] t = "SHAs" -> "shas" [] t = "Update" -> "update" [] t = "GitHub" -> "github"
      [] t = "Actions" -> "actions" [] t = "Action" -> "action" [] t = "Fix" -> "fix"
      [] t = "Y" -> "y" [] t = "N" -> "n"
      [] OTHER -> t

lower(s) == [i \in 1..Len(s) |-> LowerToken(s[i])]

-----------------------------------------------------------------------------
(* utils.replace_action_version_in_content and                             *)
(* PullRequestCreator._replace_with_sha_comment                            *)

\* f"uses: {action_name}@{version}"
UsesRef(action_name, version) == <<"uses:", " ", action_name, "@">> \o version

replace_action_version_in_content(content, action_name, old_version, new_version) ==
    Replace(content, UsesRef(action_name, old_version), UsesRef(action_name, new_version))

\* The comment and the ref the other way round: "uses: <action>@<tag> #<sha>"
_replace_with_sha_comment_swapped(content, action_name, old_version, commit_sha) ==
    IF Contains(content, UsesRef(action_name, old_version))
    THEN Replace(content, UsesRef(action_name, old_version),
                 UsesRef(action_name, old_version) \o <<" ", "#">> \o commit_sha)
    ELSE content

_replace_with_sha_comment(content, action_name, old_version, commit_sha) ==
    IF Contains(content, UsesRef(action_name, old_version))
    THEN Replace(content, UsesRef(action_name, old_version),
                 UsesRef(action_name, commit_sha) \o <<" ", "#">> \o old_version)
    ELSE content

-----------------------------------------------------------------------------
(* utils.parse_action_version, scan_file_for_action_line_number and        *)
(* search_and_extract_actions                                              *)

\* Tokens that stand for an owner/repo name, [a-zA-Z0-9_\-]+/[a-zA-Z0-9_\-]+
ActionNames == {"actions/checkout", "actions/labeler"}

\* Characters of [a-zA-Z0-9_\-\.] that occur in the files modelled
RefChars == Digits \cup {"v", ".", "m"}

\* str.splitlines(), and the line breaks of a YAML document
RECURSIVE splitlines(_)
splitlines(s) ==
    IF s = <<>> THEN <<>>
    ELSE LET first == SplitFirst(s, "\n")
         IN  <<first>> \o splitlines(Drop(s, Len(first) + 2))

\* The longest prefix of s made of characters in chars
RECURSIVE TakeWhile(_, _)
TakeWhile(s, chars) ==
    IF s # <<>> /\ Head(s) \in chars THEN <<Head(s)>> \o TakeWhile(Tail(s), chars) ELSE <<>>

\* re.match of \s+(name)@(ref) at the start of s: <<name, ref>> or None
MatchAfterUses(s) ==
    LET rest == lstrip(s, WhiteSpace)
    IN  IF /\ Len(rest) < Len(s)
           /\ Len(rest) >= 3
           /\ rest[1] \in ActionNames
           /\ rest[2] = "@"
           /\ rest[3] \in RefChars
        THEN <<rest[1], TakeWhile(Drop(rest, 3), RefChars)>>
        ELSE None

\* re.search(r"uses:\s+(name)@(ref)", action_line): the leftmost match
RECURSIVE parse_action_version(_)
parse_action_version(action_line) ==
    IF action_line = <<>> THEN None
    ELSE IF Head(action_line) = "uses:" /\ MatchAfterUses(Tail(action_line)) # None
         THEN MatchAfterUses(Tail(action_line))
         ELSE parse_action_version(Tail(action_line))

\* The (line number, name, version) of every line of file_content that uses action
scan_file_for_action_line_number(file_content, action) ==
    LET lines == splitlines(file_content)
        hit(i) == /\ parse_action_version(lines[i]) # None
                  /\ <<parse_action_version(lines[i])[1]>> = action
        RECURSIVE from(_)
        from(i) ==
            IF i > Len(lines) THEN <<>>
            ELSE IF hit(i)
                 THEN <<<<i, parse_action_version(lines[i])[1],
                          parse_action_version(lines[i])[2]>>>> \o from(i + 1)
                 ELSE from(i + 1)
    IN  from(1)

\* yaml.safe_load: the "uses" values of the steps of the workflow, in order. A
\* step is written on one line, "uses:" followed by white space and the value.
YamlStepUses(file_content) ==
    LET lines == splitlines(file_content)
        value(i) == lstrip(Tail(lstrip(lines[i], WhiteSpace \cup {"-"})), WhiteSpace)
        isStep(i) == LET l == lstrip(lines[i], WhiteSpace \cup {"-"})
                     IN  l # <<>> /\ Head(l) = "uses:" /\ value(i) # <<>>
        RECURSIVE from(_)
        from(i) ==
            IF i > Len(lines) THEN <<>>
            ELSE IF isStep(i) THEN <<SplitFirst(value(i), " ")>> \o from(i + 1)
                 ELSE from(i + 1)
    IN  from(1)

\* step["uses"][: step["uses"].find("@")]: what stands before the first "@"; with
\* no "@", find gives -1 and the slice drops the last character.
ActionOfUses(u) ==
    IF \E i \in DOMAIN u : u[i] = "@" THEN SplitFirst(u, "@")
    ELSE SubSeq(u, 1, Len(u) - 1)

\* isinstance(item, (list, dict, set)): the items of used_actions are dicts
IsListDictOrSet(item) == TRUE

\* deduplicate_list: an item that is a list, a dict or a set is appended
\* whatever was seen; any other item is appended the first time it is seen.
RECURSIVE DeduplicateFrom(_, _)
DeduplicateFrom(input_list, seen) ==
    IF input_list = <<>> THEN <<>>
    ELSE IF IsListDictOrSet(Head(input_list))
         THEN <<Head(input_list)>> \o DeduplicateFrom(Tail(input_list), seen)
         ELSE IF Head(input_list) \in seen
              THEN DeduplicateFrom(Tail(input_list), seen)
              ELSE <<Head(input_list)>>
                   \o DeduplicateFrom(Tail(input_list), seen \cup {Head(input_list)})

deduplicate_list(input_list) == DeduplicateFrom(input_list, {})

\* save_used_actions: SELECT DISTINCT * over the usage files
save_used_actions(files) == UNION { {l[i] : i \in 1..Len(l)} : l \in files }

\* The records search_and_extract_actions writes for one workflow file: one per
\* step, holding the FIRST entry of the step's line_numbers (or Unknown, -1).
search_and_extract_actions(repo_full_name, filepath, file_content) ==
    LET uses == YamlStepUses(file_content)
        record(u) ==
            LET line_numbers == scan_file_for_action_line_number(file_content,
                                                                 ActionOfUses(u))
            IN  [ action_raw     |-> u,
                  filepath       |-> filepath,
                  repo_full_name |-> repo_full_name,
                  action_name    |-> IF line_numbers # <<>>
                                     THEN line_numbers[1][2] ELSE "Unknown",
                  action_version |-> IF line_numbers # <<>>
                                     THEN line_numbers[1][3] ELSE <<"Unknown">>,
                  line_number    |-> IF line_numbers # <<>>
                                     THEN line_numbers[1][1] ELSE -1 ]
        RECURSIVE used_actions(_)
        used_actions(k) ==
            IF k > Len(uses) THEN <<>>
            ELSE <<record(uses[k])>> \o used_actions(k + 1)
    IN  deduplicate_list(used_actions(1))

-----------------------------------------------------------------------------
(* database.Database: the queries, as functions of the tables *)

\* An SQL NULL in an INTEGER column
NullInt == -1

-----------------------------------------------------------------------------
(* GitHubAPIClient._extract_major_version *)

\* Whether (\.\d+)*$ matches all of rest: any number of groups of a dot and
\* at least one digit, up to the end or up to one final newline.
RECURSIVE MatchesMinorGroups(_)
MatchesMinorGroups(rest) ==
    IF rest = <<>> \/ rest = <<"\n">> THEN TRUE
    ELSE /\ Head(rest) = "."
         /\ TakeWhile(Tail(rest), Digits) # <<>>
         /\ MatchesMinorGroups(Drop(Tail(rest), Len(TakeWhile(Tail(rest), Digits)) + 1))

\* A plausible slip: the pattern with a mandatory leading v.
_extract_major_version_requiring_v(tag) ==
    LET body == IF tag # <<>> /\ Head(tag) = "v" THEN Tail(tag) ELSE <<>>
        major == TakeWhile(body, Digits)
    IN  IF major # <<>> /\ MatchesMinorGroups(Drop(body, Len(major) + 1))
        THEN <<"v">> \o major
        ELSE None

\* re.match(r"^v?(\d+)(\.\d+)*$", tag): one optional v, the digits of group 1,
\* the dotted groups; the result is "v" and group 1, or None without a match.
_extract_major_version(tag) ==
    LET body == IF tag # <<>> /\ Head(tag) = "v" THEN Tail(tag) ELSE tag
        major == TakeWhile(body, Digits)
    IN  IF major # <<>> /\ MatchesMinorGroups(Drop(body, Len(major) + 1))
        THEN <<"v">> \o major
        ELSE None

\* The fields GitHubAction declares
GitHubActionFields ==
    {"name", "owner", "repo", "stars", "latest_version", "latest_major_version", "checked_at"}

\* save_popular_action: the parameters of the INSERT OR REPLACE are read from
\* the action first, action.commit_sha among them; reading a field the model
\* does not declare raises AttributeError and nothing is executed. The table is
\* keyed by name.
save_popular_action(table, action) ==
    IF "commit_sha" \notin GitHubActionFields
    THEN [raised |-> TRUE, table |-> table]
    ELSE [raised |-> FALSE, table |-> {x \in table : x.name # action.name} \cup {action}]

\* SELECT * FROM popular_actions WHERE latest_major_version IS NOT NULL
get_popular_actions(table) == {a \in table : a.latest_major_version # None}

\* The literal denylist of get_outdated_mentions
DeniedRepos ==
    { "ant-design/ant-design", "expo/expo", "tldraw/tldraw", "gorhill/uBlock",
      "AUTOMATIC1111/stable-diffusion-webui", "alacritty/alacritty",
      "pocketbase/pocketbase", "RVC-Boss/GPT-SoVITS", "Significant-Gravitas/AutoGPT" }

DeniedActions == {"actions/labeler"}

\* The values a LEFT JOIN yields for a row: those of the matching rows, or one NULL.
LeftJoin(matches, null) == IF matches = {} THEN {null} ELSE matches

\* The classification without its WHERE clause: every usage is a candidate
find_outdated_actions_of_every_usage(usage, actions) ==
    { [ repo_full_name       |-> au.repo_full_name,
        action_name          |-> au.action_name,
        action_version       |-> au.action_version,
        filepath             |-> au.filepath,
        line_number          |-> au.line_number,
        latest_major_version |-> lmv,
        is_outdated          |-> is_major_version_outdated(au.action_version, lmv) = "true" ]
      : <<au, lmv>> \in
          { <<u, l>> \in usage \X ({a.latest_major_version : a \in actions} \cup {None}) :
              l \in LeftJoin({a.latest_major_version : a \in
                                 {b \in actions : b.owner_repo = u.action_name}}, None) } }

\* The rows find_outdated_actions inserts into outdated_actions.
find_outdated_actions(usage, actions) ==
    { [ repo_full_name       |-> au.repo_full_name,
        action_name          |-> au.action_name,
        action_version       |-> au.action_version,
        filepath             |-> au.filepath,
        line_number          |-> au.line_number,
        latest_major_version |-> lmv,
        is_outdated          |-> is_major_version_outdated(au.action_version, lmv) = "true" ]
      : <<au, lmv>> \in
          { <<u, l>> \in usage \X ({a.latest_major_version : a \in actions} \cup {None}) :
              /\ u.action_version # <<>> /\ Head(u.action_version) = "v"
              /\ u.line_number # -1
              /\ l \in LeftJoin({a.latest_major_version : a \in
                                   {b \in actions : b.owner_repo = u.action_name}}, None) } }

\* The SELECT without its two NOT IN conditions
OutdatedJoinWithoutDenylists(outdated, repos, actions, tags) ==
    { [ repo_full_name   |-> oa.repo_full_name,
        action_name      |-> oa.action_name,
        detected_version |-> oa.action_version,
        file_path        |-> oa.filepath,
        line_number      |-> oa.line_number,
        latest_version   |-> j[1],
        is_outdated      |-> oa.is_outdated,
        stars            |-> j[2],
        commit_sha       |-> j[3] ]
      : <<oa, j>> \in
          { <<o, k>> \in outdated \X
                ( ({a.latest_version : a \in actions} \cup {None})
                  \X ({r.stars : r \in repos} \cup {NullInt})
                  \X ({t.commit_sha : t \in tags} \cup {None}) ) :
              /\ o.is_outdated
              /\ k[1] \in LeftJoin({a.latest_version : a \in
                                      {b \in actions : b.owner_repo = o.action_name}}, None)
              /\ k[2] \in LeftJoin({r.stars : r \in
                                      {q \in repos : q.repo_full_name = o.repo_full_name}},
                                   NullInt)
              /\ k[3] \in LeftJoin({t.commit_sha : t \in
                                      {u \in tags : /\ u.action_name = o.action_name
                                                    /\ u.tag = o.action_version}}, None) } }

\* The SELECT of get_outdated_mentions before its condition on
\* pull_request_exclusions: the joins on the repositories, the catalog and the
\* tags, the condition on is_outdated and the denylists.
OutdatedJoin(outdated, repos, actions, tags) ==
    { [ repo_full_name   |-> oa.repo_full_name,
        action_name      |-> oa.action_name,
        detected_version |-> oa.action_version,
        file_path        |-> oa.filepath,
        line_number      |-> oa.line_number,
        latest_version   |-> j[1],
        is_outdated      |-> oa.is_outdated,
        stars            |-> j[2],
        commit_sha       |-> j[3] ]
      : <<oa, j>> \in
          { <<o, k>> \in outdated \X
                ( ({a.latest_version : a \in actions} \cup {None})
                  \X ({r.stars : r \in repos} \cup {NullInt})
                  \X ({t.commit_sha : t \in tags} \cup {None}) ) :
              /\ o.is_outdated
              /\ o.repo_full_name \notin DeniedRepos
              /\ o.action_name \notin DeniedActions
              /\ k[1] \in LeftJoin({a.latest_version : a \in
                                      {b \in actions : b.owner_repo = o.action_name}}, None)
              /\ k[2] \in LeftJoin({r.stars : r \in
                                      {q \in repos : q.repo_full_name = o.repo_full_name}},
                                   NullInt)
              /\ k[3] \in LeftJoin({t.commit_sha : t \in
                                      {u \in tags : /\ u.action_name = o.action_name
                                                    /\ u.tag = o.action_version}}, None) } }

\* The query without "pre.repo_full_name IS NULL"
OutdatedRowsWithoutExclusions(outdated, repos, actions, tags, exclusions) ==
    OutdatedJoin(outdated, repos, actions, tags)

\* The rows the SELECT of get_outdated_mentions returns, without their order.
OutdatedRows(outdated, repos, actions, tags, exclusions) ==
    { row \in OutdatedJoin(outdated, repos, actions, tags) :
        row.repo_full_name \notin exclusions }

\* RepositoryMention(...) raises a ValidationError for a NULL latest_version
\* (declared str) or NULL stars (declared int).
MentionsValid(rows) ==
    \A row \in rows : row.latest_version # None /\ row.stars # NullInt

\* models.RepositoryMention: the declared fields. The model declares no
\* commit_sha field, so the commit_sha argument of get_outdated_mentions is
\* dropped and reading m.commit_sha raises AttributeError.
RepositoryMention(row) ==
    [ repo_full_name   |-> row.repo_full_name,
      file_path        |-> row.file_path,
      line_number      |-> row.line_number,
      action_name      |-> row.action_name,
      detected_version |-> row.detected_version,
      latest_version   |-> row.latest_version,
      stars            |-> row.stars,
      is_outdated      |-> row.is_outdated ]

\* m.commit_sha as far as the mention holds one: a RepositoryMention has the
\* declared fields only
CarriedCommitSha(m) == IF "commit_sha" \in DOMAIN m THEN m.commit_sha ELSE None

\* ORDER BY pr.stars desc
OrderedByStarsDescending(rows) ==
    { f \in [1..Cardinality(rows) -> rows] :
        /\ \A i, j \in 1..Cardinality(rows) : i # j => f[i] # f[j]
        /\ \A i, j \in 1..Cardinality(rows) : i < j => f[i].stars >= f[j].stars }

\* ORDER BY pr.stars asc: every enumeration of the rows with stars ascending
\* (rows of equal stars in any order).
OrderedByStars(rows) ==
    { f \in [1..Cardinality(rows) -> rows] :
        /\ \A i, j \in 1..Cardinality(rows) : i # j => f[i] # f[j]
        /\ \A i, j \in 1..Cardinality(rows) : i < j => f[i].stars <= f[j].stars }

\* The lists get_outdated_mentions may return (when no row fails validation).
get_outdated_mentions(outdated, repos, actions, tags, exclusions) ==
    { [i \in 1..Len(f) |-> RepositoryMention(f[i])]
      : f \in OrderedByStars(OutdatedRows(outdated, repos, actions, tags, exclusions)) }

\* A write of the exclusion that is lost
add_repo_to_pr_exclusions_lost(exclusions, repo_full_name) == exclusions

add_repo_to_pr_exclusions(exclusions, repo_full_name) == exclusions \cup {repo_full_name}

\* A status record that is not written
save_pr_record_dropped(records, pr) == records

\* A plain INSERT on a table without its primary key
save_pr_record_inserting(records, pr) == records \cup {pr}

\* INSERT OR REPLACE INTO pull_requests: keyed by pr_url
save_pr_record(records, pr) == {x \in records : x.pr_url # pr.pr_url} \cup {pr}

-----------------------------------------------------------------------------
(* tracker.update_tracker *)

\* A tracker that is written anew with the row of the last pull request
update_tracker_truncating(rows, pr) ==
    <<[repo_full_name |-> pr.repo_full_name, pr_url |-> pr.pr_url, status |-> pr.status]>>

update_tracker(rows, pr) ==
    Append(rows, [repo_full_name |-> pr.repo_full_name, pr_url |-> pr.pr_url,
                  status |-> pr.status])

-----------------------------------------------------------------------------
(* tracker: PR_TRACKER.md as text, a sequence of lines *)

\* str.split(sep): the parts between the separators, empty ones included
RECURSIVE SplitOn(_, _)
SplitOn(s, sep) ==
    LET first == SplitFirst(s, sep)
    IN  IF Len(first) = Len(s) THEN <<first>>
        ELSE <<first>> \o SplitOn(Drop(s, Len(first) + 2), sep)

\* sep.join(parts)
RECURSIVE JoinWith(_, _)
JoinWith(parts, sep) ==
    IF Len(parts) = 1 THEN Head(parts)
    ELSE Head(parts) \o <<sep>> \o JoinWith(Tail(parts), sep)

\* The four lines update_tracker writes into a new file
TrackerHeader ==
    << <<"#", " ", "Pull Request Tracker", "\n">>,
       <<"\n">>,
       <<"|", " ", "Date", " ", "|", " ", "Repo", " ", "|", " ", "PR", " ", "|", " ",
         "Status", " ", "|", "\n">>,
       <<"|", "---", "|", "---", "|", "---", "|", "---", "|", "\n">> >>

\* f"| {date_str} | {repo} | [{url}]({url}) | {status} |\n"
TrackerLine(pr) ==
    <<"|", " ", pr.created_at, " ", "|", " ", pr.repo_full_name, " ", "|", " ", "[">>
    \o pr.pr_url \o <<"]", "(">> \o pr.pr_url \o <<")", " ", "|", " ", pr.status, " ",
                                                   "|", "\n">>

\* update_tracker on the lines of the file, <<>> for a file that is missing
update_tracker_file(lines, pr) ==
    (IF lines = <<>> THEN TrackerHeader ELSE lines) \o <<TrackerLine(pr)>>

\* (\d+) after "](", the URL up to /pull/ being at i + 2 .. i + 6
PullNumber(line, i) == TakeWhile(Drop(line, i + 7), Digits)

\* pr_pattern.search(line): the position of "](" that is followed by
\* https://github.com/<owner>/<repo>/pull/<number> and ")", 0 without one
PrPatternAt(line) ==
    LET hits == { i \in 1..(Len(line) - 8) :
                    /\ line[i] = "]" /\ line[i + 1] = "("
                    /\ line[i + 2] = "https://github.com/"
                    /\ line[i + 3] # "/" /\ line[i + 4] = "/" /\ line[i + 5] # "/"
                    /\ line[i + 6] = "/pull/"
                    /\ PullNumber(line, i) # <<>>
                    /\ i + 7 + Len(PullNumber(line, i)) <= Len(line)
                    /\ line[i + 7 + Len(PullNumber(line, i))] = ")"
                    /\ \E j \in 1..(i - 1) : line[j] = "[" }
    IN  IF hits = {} THEN 0 ELSE CHOOSE i \in hits : \A j \in hits : i <= j

\* The URL pr_pattern captures in group 1
MatchedUrl(line) ==
    SubSeq(line, PrPatternAt(line) + 2,
           PrPatternAt(line) + 6 + Len(PullNumber(line, PrPatternAt(line))))

\* line.strip().startswith("|") and "github.com" in line
IsPolledLine(line) ==
    /\ LET l == lstrip(line, WhiteSpace \cup {"\n"}) IN l # <<>> /\ Head(l) = "|"
    /\ \E i \in 1..Len(line) : line[i] = "https://github.com/"
    /\ PrPatternAt(line) # 0

\* A refresh that writes the status into the column before the last
refreshed_line_in_pr_column(line, status) ==
    LET parts == SplitOn(line, "|")
    IN  IF Len(parts) >= 5 /\ strip(parts[5]) # <<status>>
        THEN JoinWith([parts EXCEPT ![4] = <<" ", status, " ">>], "|")
        ELSE line

\* Lines 62-70: parts[4] (the fifth part) becomes " status " when the status
\* changed
refreshed_line(line, status) ==
    LET parts == SplitOn(line, "|")
    IN  IF Len(parts) >= 5 /\ strip(parts[5]) # <<status>>
        THEN JoinWith([parts EXCEPT ![5] = <<" ", status, " ">>], "|")
        ELSE line

\* The status of a pull request as polled: "merged" if merged, else its state
PolledStatus(details) == IF details.merged THEN "merged" ELSE details.state

\* update_pr_statuses on the lines of the file; poll gives for a URL the
\* details the API returned, or Missing when the request raised
update_pr_statuses(lines, poll) ==
    [ i \in 1..Len(lines) |->
        IF IsPolledLine(lines[i]) /\ poll[MatchedUrl(lines[i])].exists
        THEN refreshed_line(lines[i], PolledStatus(poll[MatchedUrl(lines[i])]))
        ELSE lines[i] ]

-----------------------------------------------------------------------------
(* GitHubAPIClient.find_workflow_yaml_prs and                              *)
(* PullRequestCreator.should_create_pr, build_pr_details                   *)

IsWorkflowYaml(file_name) ==
    /\ file_name # <<>>
    /\ StartsWith(file_name, <<".github/workflows/">>)
    /\ (EndsWith(file_name, <<".yml">>) \/ EndsWith(file_name, <<".yaml">>))

\* One entry per (open pull request, workflow file it modifies), in order.
RECURSIVE WorkflowEntries(_, _)
WorkflowEntries(pr, files) ==
    IF files = <<>> THEN <<>>
    ELSE (IF IsWorkflowYaml(Head(files))
          THEN << [number |-> pr.number, title |-> pr.title,
                   file_modified |-> Head(files), author |-> pr.author] >>
          ELSE <<>>) \o WorkflowEntries(pr, Tail(files))

RECURSIVE find_workflow_yaml_prs(_)
find_workflow_yaml_prs(all_prs) ==
    IF all_prs = <<>> THEN <<>>
    ELSE WorkflowEntries(Head(all_prs), Head(all_prs).files)
         \o find_workflow_yaml_prs(Tail(all_prs))

\* The author should_create_pr compares with
Me == "pgoslatara"

PinTitleMatch(title_lower) ==
    \/ Contains(title_lower, <<"pin">>) /\ Contains(title_lower, <<"sha">>)
    \/ Contains(title_lower, <<"commit", " ", "sha">>)

BumpTitleMatch(title_lower) ==
    \/ Contains(title_lower, <<"(deps):", " ", "bump", " ", "actions/">>)
    \/ Contains(title_lower, <<"build:", " ", "bump", " ">>)
    \/ Contains(title_lower, <<"bump", " ">>)
    \/ StartsWith(title_lower, <<"bump", " ", "the", " ", "github-actions", " ", "group">>)
    \/ Contains(title_lower, <<"chore", "(deps):", " ", "bump", " ">>)
    \/ Contains(title_lower, <<"chore", "(deps):", " ", "update", " ">>)
    \/ Contains(title_lower, <<"ci:", " ", "bump", " ">>)

\* A conflict check that applies both strategies' tests whatever the strategy
should_create_pr_either_strategy(pin, existing_prs) ==
    \A i \in 1..Len(existing_prs) :
        LET title_lower == lower(strip(existing_prs[i].title))
        IN  ~(PinTitleMatch(title_lower) \/ BumpTitleMatch(title_lower)
              \/ existing_prs[i].author = Me)

\* A plausible slip: a conflict check that never finds a conflict.
should_create_pr_always(pin, existing_prs) == TRUE

should_create_pr(pin, existing_prs) ==
    \A i \in 1..Len(existing_prs) :
        LET title_lower == lower(strip(existing_prs[i].title))
        IN  IF pin
            THEN ~(PinTitleMatch(title_lower) \/ existing_prs[i].author = Me)
            ELSE ~(BumpTitleMatch(title_lower) \/ existing_prs[i].author = Me)

\* The title build_pr_details gives the pull request
build_pr_title(pin, mentions) ==
    IF pin
    THEN IF Len(mentions) > 1
         THEN <<"chore:", " ", "Pin", " ", "GitHub", " ", "Actions", " ", "to", " ",
                "commit", " ", "SHAs">>
         ELSE <<"chore:", " ", "Pin", " ", "GitHub", " ", "Action", " ", "to", " ",
                "commit", " ", "SHA">>
    ELSE IF Len(mentions) > 1
         THEN <<"chore:", " ", "Update", " ", "outdated", " ", "GitHub", " ", "Actions",
                " ", "versions">>
         ELSE <<"chore:", " ", "Update", " ", "outdated", " ", "GitHub", " ", "Actions",
                " ", "version">>

\* The title the CLI command gives the pull request
cli_pr_title(mentions) ==
    IF Len(mentions) > 1
    THEN <<"docs:", " ", "Update", " ", "outdated", " ", "GitHub", " ", "Actions", " ",
           "versions">>
    ELSE <<"docs:", " ", "Update", " ", "outdated", " ", "GitHub", " ", "Actions", " ",
           "version">>

\* repo_updates: the mentions grouped by repository, and the repositories in the
\* order of their first appearance (the iteration order of the dict).
RECURSIVE FirstAppearance(_, _)
FirstAppearance(mentions, seen) ==
    IF mentions = <<>> THEN <<>>
    ELSE IF Head(mentions).repo_full_name \in seen
         THEN FirstAppearance(Tail(mentions), seen)
         ELSE <<Head(mentions).repo_full_name>>
              \o FirstAppearance(Tail(mentions), seen \cup {Head(mentions).repo_full_name})

MentionsOf(mentions, repo_full_name) ==
    SelectSeq(mentions, LAMBDA m : m.repo_full_name = repo_full_name)

-----------------------------------------------------------------------------
(* PullRequestCreator.update_workflow_files and the rewrite loop of the    *)
(* CLI command                                                             *)

\* A file that does not exist; new_content before its first assignment
Absent == <<"<absent>">>
Unbound == <<"<unbound>">>

\* m.file_path.replace("/cloned_repos/", "/pr/")
PrPath(file_path) == [file_path EXCEPT !.root = "pr"]

\* A loop that counts every file a mention names as modified, changed or not
RECURSIVE update_workflow_files_marking_every_file(_, _, _, _, _)
update_workflow_files_marking_every_file(pin, ms, files, modified, new_content) ==
    IF ms = <<>>
    THEN [raised |-> FALSE, files |-> files, modified_files |-> modified]
    ELSE LET m == Head(ms)
             content == files[m.file_path.file]
             next == IF m.latest_version # <<>>
                     THEN replace_action_version_in_content(
                              content, m.action_name, m.detected_version, m.latest_version)
                     ELSE new_content
         IN  IF content = Absent \/ pin \/ next = Unbound
             THEN [raised |-> TRUE, files |-> files, modified_files |-> modified]
             ELSE update_workflow_files_marking_every_file(pin, Tail(ms),
                      [files EXCEPT ![m.file_path.file] = next],
                      modified \cup {PrPath(m.file_path)}, next)

\* The loop of update_workflow_files over the mentions ms, on the files of the
\* checkout: the files as written, the modified set, and whether an exception
\* left the loop (open() of a missing file; m.commit_sha, which RepositoryMention
\* does not have, read when pin_to_sha is set; new_content read before any
\* assignment).
RECURSIVE update_workflow_files(_, _, _, _, _)
update_workflow_files(pin, ms, files, modified, new_content) ==
    IF ms = <<>>
    THEN [raised |-> FALSE, files |-> files, modified_files |-> modified]
    ELSE LET m == Head(ms)
             content == files[m.file_path.file]
             next == IF m.latest_version # <<>>
                     THEN replace_action_version_in_content(
                              content, m.action_name, m.detected_version, m.latest_version)
                     ELSE new_content
         IN  IF content = Absent \/ pin \/ next = Unbound
             THEN [raised |-> TRUE, files |-> files, modified_files |-> modified]
             ELSE IF next # content
                  THEN update_workflow_files(pin, Tail(ms),
                           [files EXCEPT ![m.file_path.file] = next],
                           modified \cup {PrPath(m.file_path)}, next)
                  ELSE update_workflow_files(pin, Tail(ms), files, modified, next)

\* The loop of cli.create_prs, lines 79-93: always the version substitution.
RECURSIVE cli_update_workflow_files(_, _, _)
cli_update_workflow_files(ms, files, modified) ==
    IF ms = <<>>
    THEN [raised |-> FALSE, files |-> files, modified_files |-> modified]
    ELSE LET m == Head(ms)
             content == files[m.file_path.file]
             next == replace_action_version_in_content(
                         content, m.action_name, m.detected_version, m.latest_version)
         IN  IF content = Absent
             THEN [raised |-> TRUE, files |-> files, modified_files |-> modified]
             ELSE IF next # content
                  THEN cli_update_workflow_files(Tail(ms),
                           [files EXCEPT ![m.file_path.file] = next],
                           modified \cup {PrPath(m.file_path)})
                  ELSE cli_update_workflow_files(Tail(ms), files, modified)

-----------------------------------------------------------------------------
(* The repositories, files and pull requests that are enumerated *)

Repos == {"o/r1", "o/r2"}

NoRepo == "<none>"

\* stargazers_count of each repository
StarsOf(repo_full_name) == IF repo_full_name = "o/r1" THEN 10 ELSE 20

WorkflowFile == ".github/workflows/ci.yml"

FileNames == {WorkflowFile}

\* "- uses: actions/checkout@v3": the form the version substitution matches
SingleSpace == <<"-", " ", "uses:", " ", "actions/checkout", "@", "v", "3", "\n">>

\* "- uses:  actions/checkout@v3": found by the scan (uses:\s+), not by the
\* substitution (one space)
DoubleSpace == <<"-", " ", "uses:", " ", " ", "actions/checkout", "@", "v", "3", "\n">>

WorkflowContents == {SingleSpace, DoubleSpace}

\* The path of a file of the sparse checkout temp_dir/cloned_repos/<repo>
ScanPath(repo_full_name, file) ==
    [root |-> "cloned_repos", repo |-> repo_full_name, file |-> file]

\* Path(settings.temp_dir) / "cloned_repos"
ClonedRepos == <<"cloned_repos">>

\* A checkout directory named after the repository alone
checkout_dir_by_name(repo_full_name) ==
    ClonedRepos \o <<"/">> \o Drop(repo_full_name, Len(SplitFirst(repo_full_name, "/")) + 2)

\* Path(settings.temp_dir) / "cloned_repos" / repo_full_name.replace("/", "_")
checkout_dir(repo_full_name) ==
    ClonedRepos \o <<"/">> \o Replace(repo_full_name, <<"/">>, <<"_">>)

\* f"./{settings.temp_dir}/action_usage/{repo_full_name}/actions_used.json"
usage_file(repo_full_name) ==
    <<"action_usage", "/">> \o repo_full_name \o <<"/", "actions_used.json">>

\* The repositories handed to the worker pools, as owner, "/" and name: an
\* owner holds no underscore, a name may
PoolRepos ==
    { <<"o", "/", "r">>, <<"o", "/", "r", "_", "s">>, <<"p", "/", "r">> }

\* settings.exclude_repos
ExcludeRepos == { <<"x", "/", "y">> }

\* The paths under temp_dir
TempPaths ==
    {ClonedRepos} \cup {checkout_dir(r) : r \in PoolRepos}
                  \cup {usage_file(r) : r \in PoolRepos}

\* scan_repos without its check of the checkouts directory
scan_repos_refuses_without_checkouts(actions, repos, files) ==
    IF get_popular_actions(actions) = {} THEN "No known actions found"
    ELSE IF repos = {} THEN "No known repos found"
    ELSE "none"

\* get_popular_repos: the rows that are not excluded, not archived and no
\* fork (the rows enumerated were all pushed to in the last six months)
get_popular_repos(rows) ==
    { row.repo_full_name : row \in
        {x \in rows : x.repo_full_name \notin ExcludeRepos /\ ~x.archived /\ ~x.fork} }

\* fetch_repos: the RuntimeError raised before the Pool is made, "none" if none
fetch_repos_refuses(repos) ==
    IF repos = {} THEN "No known repos found" ELSE "none"

\* scan_repos: the RuntimeError raised before the Pool is made, "none" if none
scan_repos_refuses(actions, repos, files) ==
    IF get_popular_actions(actions) = {} THEN "No known actions found"
    ELSE IF repos = {} THEN "No known repos found"
    ELSE IF ~files[ClonedRepos].exists THEN "No cloned repos found"
    ELSE "none"

\* The usage batch search_and_extract_actions writes for a repository
UsageBatch(repo_full_name, files) ==
    search_and_extract_actions(repo_full_name, ScanPath(repo_full_name, WorkflowFile),
                               files[WorkflowFile])

ExampleBotTitle ==
    <<"chore", "(deps):", " ", "bump", " ", "actions/", "checkout", " ", "from", " ",
      "v3", " ", "to", " ", "v4">>

WorkflowFileName == <<".github/workflows/", "ci", ".yml">>

\* An open pull request of a dependency bot that touches the workflow file
BotPr ==
    [number |-> 1, title |-> ExampleBotTitle, author |-> "dependabot[bot]",
     files |-> <<WorkflowFileName>>, origin |-> "other"]

\* The same title on a pull request that touches no workflow file
BotPrElsewhere ==
    [number |-> 1, title |-> ExampleBotTitle, author |-> "dependabot[bot]",
     files |-> <<<<"package", ".json">>>>, origin |-> "other"]

\* A pull request of a contributor that touches the workflow file
HumanPr ==
    [number |-> 1, title |-> <<"Fix", " ", "ci", " ", "cache">>, author |-> "alice",
     files |-> <<<<"README", ".md">>, WorkflowFileName>>, origin |-> "other"]

OpenPrLists == {<<>>, <<BotPr>>, <<BotPrElsewhere>>, <<HumanPr>>}

Logins == {"pgoslatara", "octocat"}

\* What the operator types at the prompt
Answers == {<<"y">>, <<"Y">>, <<"n">>, <<>>}

\* No prompt was answered
NoAnswer == <<"<no answer>">>

\* The catalog entry of actions/checkout
CheckoutEntry ==
    [name |-> "Checkout", owner_repo |-> "actions/checkout",
     latest_version |-> <<"v", "4">>, latest_major_version |-> <<"v", "4">>]

NoDir == [exists |-> FALSE, files |-> [f \in FileNames |-> Absent]]

NoPr == [html_url |-> <<NoRepo, 0>>, state |-> "none"]

-----------------------------------------------------------------------------
(* The version strings that are enumerated *)

VersionChars == {"v", "1", "2", ".", "m"}

SeqsUpTo(S, n) == UNION {[1..k -> S] : k \in 0..n}

VersionStrings == SeqsUpTo(VersionChars, MaxLen)

-----------------------------------------------------------------------------
(* Initial states *)

\* No call of is_major_version_outdated on its own
VersionIdle ==
    /\ detected_version = <<>>
    /\ latest_version = <<>>
    /\ verdict = "unset"

\* No call was made on the handle
NotCached == [cached |-> FALSE]

HandleIdle ==
    /\ db_cache = NotCached
    /\ db_calls = <<>>
    /\ db_result = [op |-> "none"]

\* No branch was created; the clock stands at the first second considered
BranchIdle ==
    /\ clock = 0
    /\ branches = <<>>

\* A file or a directory that does not exist
Missing == [exists |-> FALSE]

\* No fetch and no scan has run: temp_dir is empty and the Pool has no task
\* UpdateMode.PIN_TO_SHA if pin_to_sha else UpdateMode.LATEST_VERSION
UpdateMode(pin) == IF pin THEN "pin_to_sha" ELSE "latest_version"

\* pin_to_sha=None, the default of the argument of create_prs and of
\* create_pr_for_repo
NoOverride == [given |-> FALSE]

\* old_pin_to_sha before its assignment
NotSaved == [bound |-> FALSE]

\* No call was made on the creator
OverrideIdle ==
    creator_call =
        [ at |-> "idle", op |-> "none", override |-> NoOverride, old_pin_to_sha |-> NotSaved,
          before |-> [pin_to_sha |-> FALSE, mode |-> UpdateMode(FALSE)],
          exit |-> "none", made |-> <<>> ]

PoolIdle ==
    /\ temp_files = [p \in TempPaths |-> Missing]
    /\ pool = [r \in PoolRepos |-> [at |-> "none"]]
    /\ accesses = {}

\* No call of a text function on its own
TextIdle ==
    /\ text_args = [content |-> <<>>]
    /\ text_result = [op |-> "unset"]

\* The store after find-repos, find-actions, fetch-repos, scan-repos and
\* find-outdated-actions have run on the repositories ups; no remediation yet.
InitWorld(ups, prs, who) ==
    /\ upstream = ups
    /\ github_prs = prs
    /\ login = who
    /\ popular_actions = {CheckoutEntry}
    /\ popular_repositories = {[repo_full_name |-> r, stars |-> StarsOf(r)] : r \in Repos}
    /\ usage_files = [r \in Repos |-> UsageBatch(r, ups[r])]
    /\ action_usage = save_used_actions({UsageBatch(r, ups[r]) : r \in Repos})
    /\ outdated_actions =
           find_outdated_actions(save_used_actions({UsageBatch(r, ups[r]) : r \in Repos}),
                                 {CheckoutEntry})
    /\ action_tags = { [action_name |-> "actions/checkout", tag |-> <<"v", "3">>,
                        commit_sha |-> <<"abc1234">>] }
    /\ pull_request_exclusions = {}
    /\ pull_requests = {}
    /\ tracker = <<>>
    /\ pr_dir = [r \in Repos |-> NoDir]
    /\ entry = "none"
    /\ pc = "idle"
    /\ batch = <<>>
    /\ queue = <<>>
    /\ cur = NoRepo
    /\ pin_to_sha = FALSE
    /\ mode = UpdateMode(FALSE)
    /\ interactive = TRUE
    /\ modified_files = {}
    /\ created_pr = NoPr
    /\ confirmation = NoAnswer
    /\ posts = [forks |-> 0, pulls |-> 0]
    /\ steps = {}
    /\ outcome = "none"
    /\ last_fault = "none"
    /\ attempted = {}
    /\ run_end = "none"
    /\ runs = 0
    /\ ever_excluded = {}

Init ==
    /\ VersionIdle
    /\ TextIdle
    /\ HandleIdle
    /\ BranchIdle
    /\ PoolIdle
    /\ OverrideIdle
    /\ \E content \in WorkflowContents, open_prs \in OpenPrLists, who \in Logins :
          InitWorld([r \in Repos |-> [f \in FileNames |->
                        IF r = "o/r1" THEN content ELSE SingleSpace]],
                    [r \in Repos |-> IF r = "o/r1" THEN open_prs ELSE <<>>],
                    who)

-----------------------------------------------------------------------------
(* The commands that maintain the catalog and the classification *)

\* cli.find_actions: truncate_actions, then save_popular_action for each action
\* found. save_popular_action reads action.commit_sha, which GitHubAction does
\* not declare: the first save raises AttributeError, after the truncation.
FindActions ==
    /\ entry = "none"
    /\ popular_actions' = {}
    /\ UNCHANGED <<popular_repositories, action_usage, outdated_actions, action_tags,
                   usage_files>>
    /\ UNCHANGED <<functionVars, ledgerVars, platformVars, runVars, pr_dir, github_prs>>

\* cli.find_repos: truncate_repositories, then save_popular_repo for each
\* repository the search returned.
FindRepos ==
    /\ entry = "none"
    /\ \E found \in {Repos, {"o/r1"}} :
          popular_repositories' =
              {[repo_full_name |-> r, stars |-> StarsOf(r)] : r \in found}
    /\ UNCHANGED <<popular_actions, action_usage, outdated_actions, action_tags,
                   usage_files>>
    /\ UNCHANGED <<functionVars, ledgerVars, platformVars, runVars, pr_dir, github_prs>>

\* cli.scan_repos: search_and_extract_actions for every known repository, then
\* save_used_actions, which reloads every usage file there is.
ScanRepos ==
    /\ entry = "none"
    /\ {a \in popular_actions : a.latest_major_version # None} # {}
    /\ popular_repositories # {}
    /\ LET known == {r.repo_full_name : r \in popular_repositories}
           written == [r \in Repos |-> IF r \in known THEN UsageBatch(r, upstream[r])
                                       ELSE usage_files[r]]
       IN  /\ usage_files' = written
           /\ action_usage' = save_used_actions({written[r] : r \in Repos})
    /\ UNCHANGED <<popular_actions, popular_repositories, outdated_actions, action_tags>>
    /\ UNCHANGED <<functionVars, ledgerVars, platformVars, runVars, pr_dir, github_prs>>

\* A classification that consumes the usage batch it has classified
FindOutdatedActionsConsumingUsage ==
    /\ entry = "none"
    /\ outdated_actions' = find_outdated_actions(action_usage, popular_actions)
    /\ action_usage' = {}
    /\ UNCHANGED <<popular_actions, popular_repositories, action_tags, usage_files>>
    /\ UNCHANGED <<functionVars, ledgerVars, platformVars, runVars, pr_dir, github_prs>>

\* cli.find_outdated_actions
FindOutdatedActions ==
    /\ entry = "none"
    /\ outdated_actions' = find_outdated_actions(action_usage, popular_actions)
    /\ UNCHANGED <<popular_actions, popular_repositories, action_usage, action_tags,
                   usage_files>>
    /\ UNCHANGED <<functionVars, ledgerVars, platformVars, runVars, pr_dir, github_prs>>

-----------------------------------------------------------------------------
(* Steps of a run: the parts every step shares *)

\* How many times @retry sends a request, of the 1..RetryTries it can: once
\* when the first try succeeds, RetryTries times when only the last one does
\* or none does.
Attempts == {1, RetryTries}

\* The step named label is done and the step at next_pc is next.
Step(label, next_pc) ==
    /\ pc' = next_pc
    /\ steps' = steps \cup {label}
    /\ last_fault' = "none"
    /\ UNCHANGED <<entry, cur, queue, run_end, outcome>>

\* The step named label raises. Neither create_pr_for_repo, PullRequestCreator.
\* create_prs nor cli.create_prs catches it: the run ends with the exception,
\* and the locals of the execution with it.
FailOn(call) ==
    /\ last_fault' = call
    /\ pc' = "idle"
    /\ steps' = {}
    /\ entry' = "none"
    /\ cur' = NoRepo
    /\ queue' = <<>>
    /\ run_end' = "raised"
    /\ outcome' = "raised"
    /\ modified_files' = {}
    /\ created_pr' = NoPr
    /\ confirmation' = NoAnswer
    /\ posts' = [forks |-> 0, pulls |-> 0]
    /\ pin_to_sha' = FALSE
    /\ mode' = UpdateMode(FALSE)
    /\ interactive' = TRUE

\* A call that is not told apart from the others raises
Fail == FailOn("other")

\* The arguments of the run
args == <<pin_to_sha, mode, interactive>>

\* The locals of the execution a step leaves alone
Keep == UNCHANGED <<modified_files, created_pr, confirmation, posts, args>>

\* What no step of a run changes
runConfig == <<batch, attempted, runs>>

\* A test that takes every answer but "n" for a confirmation
ConfirmsUnlessNo(answer) == lower(answer) # <<"n">>

\* confirmation.lower() == "y"
Confirms(answer) == lower(answer) = <<"y">>

\* A pipeline that commits whatever the rewrite changed
after_rewrite_always_commits(modified) == "commit_and_push"

\* "if not modified_files": the early exit, or on to commit_and_push
after_rewrite(modified) ==
    IF modified = {} THEN "exit_no_change" ELSE "commit_and_push"

\* A prepare_fork in which every fault ends the pipeline
prepare_fork_raises_on_every_fault(call) == call # "none"

\* The faults prepare_fork lets through: those of get_current_user and get_repo;
\* create_fork and sync_fork are each called in a try whose handler logs.
prepare_fork_raises(call) == call \in {"get_current_user", "get_repo"}

mark_repo_excluded(exclusions, repo_full_name) ==
    add_repo_to_pr_exclusions(exclusions, repo_full_name)

\* The prefix create_pr_for_repo passes to create_branch
BranchPrefix(pin) == IF pin THEN "actup/pin-actions-to-sha" ELSE "actup/update-actions"

\* create_branch: f"{prefix}-{int(datetime.now().timestamp())}", the time being
\* cut to the whole second
create_branch(prefix, timestamp) == <<prefix, timestamp>>

\* f"{prefix}-{int(datetime.now().timestamp())}"
BranchName(pin) ==
    <<IF pin THEN "actup/pin-actions-to-sha" ELSE "actup/update-actions", "<timestamp>">>

\* The pull request a successful creation call opens on repo
NewPr(repo_full_name, title) ==
    [number |-> Len(github_prs[repo_full_name]) + 1, title |-> title, author |-> login,
     files |-> <<WorkflowFileName>>, origin |-> "actup"]

PullRequestRecord(repo_full_name, response, branch_name) ==
    [repo_full_name |-> repo_full_name, pr_url |-> response.html_url,
     branch_name |-> branch_name, status |-> response.state]

-----------------------------------------------------------------------------
(* PullRequestCreator.create_prs and create_pr_for_repo *)

\* create_prs(mentions, interactive, pin_to_sha) on a new PullRequestCreator,
\* with the list get_outdated_mentions returned.
CreatorStart ==
    /\ entry = "none"
    /\ runs < MaxRuns
    /\ MentionsValid(OutdatedRows(outdated_actions, popular_repositories, popular_actions,
                                  action_tags, pull_request_exclusions))
    /\ \E ms \in get_outdated_mentions(outdated_actions, popular_repositories,
                                       popular_actions, action_tags,
                                       pull_request_exclusions) :
          /\ batch' = ms
          /\ queue' = FirstAppearance(ms, {})
    /\ \E i \in BOOLEAN : interactive' = i
    /\ \E p \in BOOLEAN : pin_to_sha' = p /\ mode' = UpdateMode(p)
    /\ entry' = "creator"
    /\ pc' = "loop"
    /\ cur' = NoRepo
    /\ attempted' = {}
    /\ run_end' = "none"
    /\ runs' = runs + 1
    /\ last_fault' = "none"
    /\ outcome' = "none"
    /\ UNCHANGED <<modified_files, created_pr, confirmation, posts, steps>>
    /\ UNCHANGED <<functionVars, catalogVars, ledgerVars, platformVars, pr_dir, github_prs>>

\* The for loop of create_prs: the next repository, or the end of the run.
CreatorLoop ==
    /\ entry = "creator"
    /\ pc = "loop"
    /\ IF queue = <<>>
       THEN /\ entry' = "none"
            /\ pc' = "idle"
            /\ run_end' = "returned"
            /\ cur' = NoRepo
            /\ modified_files' = {}
            /\ created_pr' = NoPr
            /\ confirmation' = NoAnswer
            /\ posts' = [forks |-> 0, pulls |-> 0]
            /\ steps' = {}
            /\ last_fault' = "none"
            /\ outcome' = "none"
            /\ pin_to_sha' = FALSE
            /\ mode' = UpdateMode(FALSE)
            /\ interactive' = TRUE
            /\ UNCHANGED <<queue, attempted>>
       ELSE /\ cur' = Head(queue)
            /\ queue' = Tail(queue)
            /\ attempted' = attempted \cup {Head(queue)}
            /\ pc' = "prepare_fork"
            /\ modified_files' = {}
            /\ created_pr' = NoPr
            /\ confirmation' = NoAnswer
            /\ posts' = [forks |-> 0, pulls |-> 0]
            /\ steps' = {}
            /\ last_fault' = "none"
            /\ outcome' = "none"
            /\ UNCHANGED <<entry, run_end, args>>
    /\ UNCHANGED <<batch, runs>>
    /\ UNCHANGED <<functionVars, catalogVars, ledgerVars, platformVars, pr_dir, github_prs>>

\* prepare_fork: get_current_user and get_repo (either may raise), create_fork
\* (POST, retried up to RetryTries times, a fault tolerated), sync_fork (a fault
\* tolerated).
CreatorPrepareFork ==
    /\ entry = "creator"
    /\ pc = "prepare_fork"
    /\ \E call \in {"none", "get_current_user", "get_repo", "create_fork", "sync_fork"} :
          IF prepare_fork_raises(call)
          THEN FailOn(call)
          ELSE /\ \E n \in Attempts :
                     /\ call = "create_fork" => n = RetryTries
                     /\ posts' = [posts EXCEPT !.forks = n]
               /\ pc' = "clone"
               /\ steps' = steps \cup {"fork"}
               /\ last_fault' = call
               /\ UNCHANGED <<entry, cur, queue, run_end, outcome>>
               /\ UNCHANGED <<modified_files, created_pr, confirmation, args>>
    /\ UNCHANGED runConfig
    /\ UNCHANGED <<functionVars, catalogVars, ledgerVars, platformVars, pr_dir, github_prs>>

\* clone_repository: rmtree of an existing checkout, then git_clone_shallow
\* (makedirs, then the clone, which may raise and leave the empty directory).
CreatorClone ==
    /\ entry = "creator"
    /\ pc = "clone"
    /\ \E ok \in BOOLEAN :
          IF ok
          THEN /\ pr_dir' = [pr_dir EXCEPT ![cur] = [exists |-> TRUE, files |-> upstream[cur]]]
               /\ Step("clone", "create_branch")
               /\ Keep
          ELSE /\ pr_dir' = [pr_dir EXCEPT ![cur] = [NoDir EXCEPT !.exists = TRUE]]
               /\ Fail
    /\ UNCHANGED runConfig
    /\ UNCHANGED <<functionVars, catalogVars, ledgerVars, platformVars, github_prs>>

\* get_repo and create_branch; either may raise.
CreatorBranch ==
    /\ entry = "creator"
    /\ pc = "create_branch"
    /\ \E ok \in BOOLEAN :
          IF ok THEN Step("branch", "update_workflow_files") /\ Keep ELSE Fail
    /\ UNCHANGED runConfig
    /\ UNCHANGED <<functionVars, catalogVars, ledgerVars, platformVars, pr_dir, github_prs>>

\* update_workflow_files, and the test "if not modified_files".
CreatorRewrite ==
    /\ entry = "creator"
    /\ pc = "update_workflow_files"
    /\ LET res == update_workflow_files(pin_to_sha, MentionsOf(batch, cur),
                                        pr_dir[cur].files, {}, Unbound)
       IN  /\ pr_dir' = [pr_dir EXCEPT ![cur].files = res.files]
           /\ IF res.raised THEN Fail
              ELSE /\ modified_files' = res.modified_files
                   /\ UNCHANGED <<created_pr, confirmation, posts, args>>
                   /\ Step("rewrite", after_rewrite(res.modified_files))
    /\ UNCHANGED runConfig
    /\ UNCHANGED <<functionVars, catalogVars, ledgerVars, platformVars, github_prs>>

\* The three early exits: mark_repo_excluded, rmtree(repo_dir), return None.
CreatorExit ==
    /\ entry = "creator"
    /\ pc \in {"exit_no_change", "exit_existing_pr", "exit_declined"}
    /\ \E fault \in {"none", "add_repo_to_pr_exclusions", "rmtree"} :
          /\ IF fault = "add_repo_to_pr_exclusions"
             THEN UNCHANGED <<pull_request_exclusions, ever_excluded>>
             ELSE /\ pull_request_exclusions' =
                         mark_repo_excluded(pull_request_exclusions, cur)
                  /\ ever_excluded' = ever_excluded \cup {cur}
          /\ IF fault = "none"
             THEN /\ pr_dir' = [pr_dir EXCEPT ![cur] = NoDir]
                  /\ pc' = "ret"
                  /\ last_fault' = "none"
                  /\ outcome' = CASE pc = "exit_no_change" -> "no_change"
                                  [] pc = "exit_existing_pr" -> "existing_pr"
                                  [] pc = "exit_declined" -> "declined"
                  /\ steps' = steps \cup {"exit"}
                  /\ UNCHANGED <<entry, cur, queue, run_end>>
                  /\ Keep
             ELSE /\ UNCHANGED pr_dir
                  /\ Fail
    /\ UNCHANGED runConfig
    /\ UNCHANGED <<functionVars, catalogVars, platformVars, pull_requests, tracker, github_prs>>

\* commit_and_push; may raise.
CreatorCommitPush ==
    /\ entry = "creator"
    /\ pc = "commit_and_push"
    /\ \E ok \in BOOLEAN :
          IF ok THEN Step("commit_push", "check_existing_prs") /\ Keep ELSE Fail
    /\ UNCHANGED runConfig
    /\ UNCHANGED <<functionVars, catalogVars, ledgerVars, platformVars, pr_dir, github_prs>>

\* check_existing_prs (may raise) and should_create_pr.
CreatorConflictCheck ==
    /\ entry = "creator"
    /\ pc = "check_existing_prs"
    /\ \E ok \in BOOLEAN :
          IF ~ok THEN Fail
          ELSE /\ Keep
               /\ IF should_create_pr(pin_to_sha, find_workflow_yaml_prs(github_prs[cur]))
                  THEN Step("conflict_check", "template")
                  ELSE Step("conflict_check", "exit_existing_pr")
    /\ UNCHANGED runConfig
    /\ UNCHANGED <<functionVars, catalogVars, ledgerVars, platformVars, pr_dir, github_prs>>

\* get_pr_template_content and, with a template, merge_with_template, which
\* may raise; no handler catches it.
CreatorTemplate ==
    /\ entry = "creator"
    /\ pc = "template"
    /\ \E has_template \in BOOLEAN, ok \in BOOLEAN :
          IF has_template /\ ~ok THEN FailOn("merge_with_template")
          ELSE /\ Keep
               /\ Step("template", IF interactive THEN "confirm" ELSE "create_pr")
    /\ UNCHANGED runConfig
    /\ UNCHANGED <<functionVars, catalogVars, ledgerVars, platformVars, pr_dir, github_prs>>

\* input("Happy for PR to be created (Y/N)?") and confirmation.lower() != "y"
CreatorConfirm ==
    /\ entry = "creator"
    /\ pc = "confirm"
    /\ \E answer \in Answers :
          /\ confirmation' = answer
          /\ IF ~Confirms(answer) THEN Step("confirm", "exit_declined")
             ELSE Step("confirm", "create_pr")
    /\ UNCHANGED <<modified_files, created_pr, posts, args>>
    /\ UNCHANGED runConfig
    /\ UNCHANGED <<functionVars, catalogVars, ledgerVars, platformVars, pr_dir, github_prs>>

\* create_pr: POST /repos/{owner}/{repo}/pulls through _make_request, which
\* @retry repeats up to RetryTries times: n requests are issued, of which only
\* the last can have succeeded.
CreatorCreatePr ==
    /\ entry = "creator"
    /\ pc = "create_pr"
    /\ \E n \in Attempts, ok \in BOOLEAN :
          /\ ~ok => n = RetryTries
          /\ IF ok
             THEN /\ posts' = [posts EXCEPT !.pulls = n]
                  /\ github_prs' =
                         [github_prs EXCEPT ![cur] = Append(@,
                             NewPr(cur, build_pr_title(pin_to_sha, MentionsOf(batch, cur))))]
                  /\ created_pr' = [html_url |-> <<cur, Len(github_prs[cur]) + 1>>,
                                    state |-> "open"]
                  /\ Step("create_pr", "record_pr")
                  /\ UNCHANGED <<modified_files, confirmation, args>>
             ELSE /\ UNCHANGED github_prs
                  /\ Fail
    /\ UNCHANGED runConfig
    /\ UNCHANGED <<functionVars, catalogVars, ledgerVars, platformVars, pr_dir>>

\* record_pr: Database(), save_pr_record, add_repo_to_pr_exclusions, close,
\* update_tracker; each may raise, and what was written before stays written.
CreatorRecord ==
    /\ entry = "creator"
    /\ pc = "record_pr"
    /\ \E fault \in {"none", "save_pr_record", "add_repo_to_pr_exclusions", "update_tracker"} :
          LET record == PullRequestRecord(cur, created_pr, BranchName(pin_to_sha))
          IN  /\ pull_requests' =
                     IF fault = "save_pr_record" THEN pull_requests
                     ELSE save_pr_record(pull_requests, record)
              /\ IF fault \in {"save_pr_record", "add_repo_to_pr_exclusions"}
                 THEN UNCHANGED <<pull_request_exclusions, ever_excluded>>
                 ELSE /\ pull_request_exclusions' =
                             add_repo_to_pr_exclusions(pull_request_exclusions, cur)
                      /\ ever_excluded' = ever_excluded \cup {cur}
              /\ tracker' = IF fault = "none" THEN update_tracker(tracker, record)
                            ELSE tracker
              /\ IF fault = "none" THEN Step("record", "cleanup") /\ Keep ELSE Fail
    /\ UNCHANGED runConfig
    /\ UNCHANGED <<functionVars, catalogVars, platformVars, pr_dir, github_prs>>

\* shutil.rmtree(repo_dir) and the return of the PullRequestRecord.
CreatorCleanup ==
    /\ entry = "creator"
    /\ pc = "cleanup"
    /\ \E ok \in BOOLEAN :
          IF ok
          THEN /\ pr_dir' = [pr_dir EXCEPT ![cur] = NoDir]
               /\ pc' = "ret"
               /\ last_fault' = "none"
               /\ outcome' = "created"
               /\ steps' = steps \cup {"cleanup"}
               /\ UNCHANGED <<entry, cur, queue, run_end>>
               /\ Keep
          ELSE /\ UNCHANGED pr_dir
               /\ Fail
    /\ UNCHANGED runConfig
    /\ UNCHANGED <<functionVars, catalogVars, ledgerVars, platformVars, github_prs>>

\* create_pr_for_repo has returned: back in the loop of create_prs.
CreatorReturn ==
    /\ entry = "creator"
    /\ pc = "ret"
    /\ pc' = "loop"
    /\ last_fault' = "none"
    /\ UNCHANGED <<entry, cur, queue, run_end, outcome, steps>>
    /\ Keep
    /\ UNCHANGED runConfig
    /\ UNCHANGED <<functionVars, catalogVars, ledgerVars, platformVars, pr_dir, github_prs>>

Creator ==
    \/ CreatorStart \/ CreatorLoop \/ CreatorPrepareFork \/ CreatorClone \/ CreatorBranch
    \/ CreatorRewrite \/ CreatorExit \/ CreatorCommitPush \/ CreatorConflictCheck
    \/ CreatorTemplate \/ CreatorConfirm \/ CreatorCreatePr \/ CreatorRecord
    \/ CreatorCleanup \/ CreatorReturn

-----------------------------------------------------------------------------
(* The command create-prs of the CLI: cli.create_prs *)

\* Lines 34-47: get_outdated_mentions (RepositoryMention raises a
\* ValidationError for a row whose latest_version or stars is NULL), the
\* return on an empty list, the grouping by repository, get_current_user.
CliStart ==
    /\ entry = "none"
    /\ runs < MaxRuns
    /\ runs' = runs + 1
    /\ pin_to_sha' = FALSE
    /\ mode' = UpdateMode(FALSE)
    /\ interactive' = TRUE
    /\ attempted' = {}
    /\ cur' = NoRepo
    /\ LET rows == OutdatedRows(outdated_actions, popular_repositories, popular_actions,
                                action_tags, pull_request_exclusions)
       IN  \E ok \in BOOLEAN :
              IF ~MentionsValid(rows)
              THEN batch' = <<>> /\ Fail
              ELSE \E ms \in get_outdated_mentions(outdated_actions, popular_repositories,
                                                   popular_actions, action_tags,
                                                   pull_request_exclusions) :
                      /\ batch' = ms
                      /\ IF ms = <<>>
                         THEN /\ entry' = "none"
                              /\ pc' = "idle"
                              /\ queue' = <<>>
                              /\ run_end' = "returned"
                              /\ last_fault' = "none"
                              /\ outcome' = "none"
                              /\ steps' = {}
                              /\ modified_files' = {}
                              /\ created_pr' = NoPr
                              /\ confirmation' = NoAnswer
                              /\ posts' = [forks |-> 0, pulls |-> 0]
                         ELSE IF ~ok
                         THEN Fail
                         ELSE /\ entry' = "cli"
                              /\ pc' = "loop"
                              /\ queue' = FirstAppearance(ms, {})
                              /\ run_end' = "none"
                              /\ last_fault' = "none"
                              /\ outcome' = "none"
                              /\ UNCHANGED <<steps, modified_files, created_pr, confirmation, posts>>
    /\ UNCHANGED <<functionVars, catalogVars, ledgerVars, platformVars, pr_dir, github_prs>>

\* for repo_full_name, mentions in repo_updates.items()
CliLoop ==
    /\ entry = "cli"
    /\ pc = "loop"
    /\ IF queue = <<>>
       THEN /\ entry' = "none"
            /\ pc' = "idle"
            /\ run_end' = "returned"
            /\ cur' = NoRepo
            /\ modified_files' = {}
            /\ created_pr' = NoPr
            /\ confirmation' = NoAnswer
            /\ posts' = [forks |-> 0, pulls |-> 0]
            /\ steps' = {}
            /\ last_fault' = "none"
            /\ outcome' = "none"
            /\ pin_to_sha' = FALSE
            /\ mode' = UpdateMode(FALSE)
            /\ interactive' = TRUE
            /\ UNCHANGED <<queue, attempted>>
       ELSE /\ cur' = Head(queue)
            /\ queue' = Tail(queue)
            /\ attempted' = attempted \cup {Head(queue)}
            /\ pc' = "prepare_fork"
            /\ modified_files' = {}
            /\ created_pr' = NoPr
            /\ confirmation' = NoAnswer
            /\ posts' = [forks |-> 0, pulls |-> 0]
            /\ steps' = {}
            /\ last_fault' = "none"
            /\ outcome' = "none"
            /\ UNCHANGED <<entry, run_end, args>>
    /\ UNCHANGED <<batch, runs>>
    /\ UNCHANGED <<functionVars, catalogVars, ledgerVars, platformVars, pr_dir, github_prs>>

\* Lines 53-66: get_repo (may raise), create_fork and sync_fork (faults
\* tolerated).
CliPrepareFork ==
    /\ entry = "cli"
    /\ pc = "prepare_fork"
    /\ \E call \in {"none", "get_repo", "create_fork", "sync_fork"} :
          IF prepare_fork_raises(call)
          THEN FailOn(call)
          ELSE /\ \E n \in Attempts :
                     /\ call = "create_fork" => n = RetryTries
                     /\ posts' = [posts EXCEPT !.forks = n]
               /\ pc' = "clone"
               /\ steps' = steps \cup {"fork"}
               /\ last_fault' = call
               /\ UNCHANGED <<entry, cur, queue, run_end, outcome>>
               /\ UNCHANGED <<modified_files, created_pr, confirmation, args>>
    /\ UNCHANGED runConfig
    /\ UNCHANGED <<functionVars, catalogVars, ledgerVars, platformVars, pr_dir, github_prs>>

\* Line 74: git_clone_shallow
CliClone ==
    /\ entry = "cli"
    /\ pc = "clone"
    /\ \E ok \in BOOLEAN :
          IF ok
          THEN /\ pr_dir' = [pr_dir EXCEPT ![cur] = [exists |-> TRUE, files |-> upstream[cur]]]
               /\ Step("clone", "create_branch")
               /\ Keep
          ELSE /\ pr_dir' = [pr_dir EXCEPT ![cur] = [NoDir EXCEPT !.exists = TRUE]]
               /\ Fail
    /\ UNCHANGED runConfig
    /\ UNCHANGED <<functionVars, catalogVars, ledgerVars, platformVars, github_prs>>

\* Line 77: repo.git.checkout("-b", branch_name)
CliBranch ==
    /\ entry = "cli"
    /\ pc = "create_branch"
    /\ \E ok \in BOOLEAN :
          IF ok THEN Step("branch", "update_workflow_files") /\ Keep ELSE Fail
    /\ UNCHANGED runConfig
    /\ UNCHANGED <<functionVars, catalogVars, ledgerVars, platformVars, pr_dir, github_prs>>

\* Lines 79-97: the rewrite and "if not modified_files: continue", which goes
\* to the next repository and does nothing else.
CliRewrite ==
    /\ entry = "cli"
    /\ pc = "update_workflow_files"
    /\ LET res == cli_update_workflow_files(MentionsOf(batch, cur), pr_dir[cur].files, {})
       IN  /\ pr_dir' = [pr_dir EXCEPT ![cur].files = res.files]
           /\ IF res.raised THEN Fail
              ELSE /\ modified_files' = res.modified_files
                   /\ UNCHANGED <<created_pr, confirmation, posts, args, entry, cur, queue, run_end>>
                   /\ steps' = steps \cup {"rewrite"}
                   /\ last_fault' = "none"
                   /\ IF res.modified_files = {}
                      THEN pc' = "ret" /\ outcome' = "no_change"
                      ELSE pc' = "commit_and_push" /\ UNCHANGED outcome
    /\ UNCHANGED runConfig
    /\ UNCHANGED <<functionVars, catalogVars, ledgerVars, platformVars, github_prs>>

\* Lines 106-109: index.add, index.commit, push
CliCommitPush ==
    /\ entry = "cli"
    /\ pc = "commit_and_push"
    /\ \E ok \in BOOLEAN :
          IF ok THEN Step("commit_push", "confirm") /\ Keep ELSE Fail
    /\ UNCHANGED runConfig
    /\ UNCHANGED <<functionVars, catalogVars, ledgerVars, platformVars, pr_dir, github_prs>>

\* Lines 124-125: input("Happy to proceed (Y/N)?")
CliConfirm ==
    /\ entry = "cli"
    /\ pc = "confirm"
    /\ \E answer \in Answers :
          /\ confirmation' = answer
          /\ IF Confirms(answer) THEN Step("confirm", "create_pr")
             ELSE Step("confirm", "exclude")
    /\ UNCHANGED <<modified_files, created_pr, posts, args>>
    /\ UNCHANGED runConfig
    /\ UNCHANGED <<functionVars, catalogVars, ledgerVars, platformVars, pr_dir, github_prs>>

\* Lines 126-133: create_pull_request, the same retried POST
CliCreatePr ==
    /\ entry = "cli"
    /\ pc = "create_pr"
    /\ \E n \in Attempts, ok \in BOOLEAN :
          /\ ~ok => n = RetryTries
          /\ IF ok
             THEN /\ posts' = [posts EXCEPT !.pulls = n]
                  /\ github_prs' =
                         [github_prs EXCEPT ![cur] = Append(@,
                             NewPr(cur, cli_pr_title(MentionsOf(batch, cur))))]
                  /\ created_pr' = [html_url |-> <<cur, Len(github_prs[cur]) + 1>>,
                                    state |-> "open"]
                  /\ Step("create_pr", "record_pr")
                  /\ UNCHANGED <<modified_files, confirmation, args>>
             ELSE /\ UNCHANGED github_prs
                  /\ Fail
    /\ UNCHANGED runConfig
    /\ UNCHANGED <<functionVars, catalogVars, ledgerVars, platformVars, pr_dir>>

\* Lines 139-149: save_pr_record, then update_tracker
CliRecord ==
    /\ entry = "cli"
    /\ pc = "record_pr"
    /\ \E fault \in {"none", "save_pr_record", "update_tracker"} :
          LET record == PullRequestRecord(cur, created_pr, BranchName(FALSE))
          IN  /\ pull_requests' =
                     IF fault = "save_pr_record" THEN pull_requests
                     ELSE save_pr_record(pull_requests, record)
              /\ tracker' = IF fault = "none" THEN update_tracker(tracker, record)
                            ELSE tracker
              /\ IF fault = "none" THEN Step("record", "exclude") /\ Keep ELSE Fail
    /\ UNCHANGED <<pull_request_exclusions, ever_excluded>>
    /\ UNCHANGED runConfig
    /\ UNCHANGED <<functionVars, catalogVars, platformVars, pr_dir, github_prs>>

\* Lines 151-154: add_repo_to_pr_exclusions, whatever the answer was; the
\* checkout stays where it is.
CliExclude ==
    /\ entry = "cli"
    /\ pc = "exclude"
    /\ \E ok \in BOOLEAN :
          IF ok
          THEN /\ pull_request_exclusions' =
                      add_repo_to_pr_exclusions(pull_request_exclusions, cur)
               /\ ever_excluded' = ever_excluded \cup {cur}
               /\ pc' = "ret"
               /\ last_fault' = "none"
               /\ outcome' = IF created_pr = NoPr THEN "declined" ELSE "created"
               /\ steps' = steps \cup {"exclude"}
               /\ UNCHANGED <<entry, cur, queue, run_end>>
               /\ Keep
          ELSE /\ UNCHANGED <<pull_request_exclusions, ever_excluded>>
               /\ Fail
    /\ UNCHANGED runConfig
    /\ UNCHANGED <<functionVars, catalogVars, platformVars, pull_requests, tracker, pr_dir,
                   github_prs>>

\* The end of the loop body: on to the next repository.
CliContinue ==
    /\ entry = "cli"
    /\ pc = "ret"
    /\ pc' = "loop"
    /\ last_fault' = "none"
    /\ UNCHANGED <<entry, cur, queue, run_end, outcome, steps>>
    /\ Keep
    /\ UNCHANGED runConfig
    /\ UNCHANGED <<functionVars, catalogVars, ledgerVars, platformVars, pr_dir, github_prs>>

Cli ==
    \/ CliStart \/ CliLoop \/ CliPrepareFork \/ CliClone \/ CliBranch \/ CliRewrite
    \/ CliCommitPush \/ CliConfirm \/ CliCreatePr \/ CliRecord \/ CliExclude \/ CliContinue

Next == FindActions \/ FindRepos \/ ScanRepos \/ FindOutdatedActions \/ Creator \/ Cli

Spec == Init /\ [][Next]_vars

-----------------------------------------------------------------------------
(* Specification SpecVersion: is_major_version_outdated on every pair *)

InitVersion ==
    /\ InitWorld([r \in Repos |-> [f \in FileNames |-> SingleSpace]],
                 [r \in Repos |-> <<>>], "pgoslatara")
    /\ detected_version \in VersionStrings \cup {None}
    /\ latest_version \in VersionStrings \cup {None}
    /\ verdict = "unset"
    /\ TextIdle
    /\ HandleIdle
    /\ BranchIdle
    /\ PoolIdle
    /\ OverrideIdle

CallIsOutdated ==
    /\ verdict = "unset"
    /\ verdict' = is_major_version_outdated(detected_version, latest_version)
    /\ UNCHANGED <<detected_version, latest_version, text_args, text_result, handleVars,
                   branchVars, poolVars, overrideVars>>
    /\ UNCHANGED <<catalogVars, ledgerVars, platformVars, runVars, pr_dir, github_prs>>

NextVersion == CallIsOutdated

SpecVersion == InitVersion /\ [][NextVersion]_vars

-----------------------------------------------------------------------------
(* Specification SpecText: the substitutions and the extraction on every   *)
(* small workflow file                                                     *)

\* Version tags as they are written in workflow files: v1, v12, v2, v1.2
TextTags == { <<"v", "1">>, <<"v", "1", "2">>, <<"v", "2">>, <<"v", "1", ".", "2">> }

\* Refs that are no version tag: the branch "m", the bare number "1"
TextRefs == TextTags \cup { <<"m">>, <<"1">> }

\* Commit SHAs: hexadecimal digits
TextShas == { <<"a", "1">> }

\* The versions a reference is rewritten to: one that begins with another tag,
\* one that does not
TextNewVersions == { <<"v", "1", "2">>, <<"v", "2">> }

\* "- uses: <name>@<ref>"
StepLine(action_name, ref) == <<"-", " ">> \o UsesRef(action_name, ref) \o <<"\n">>

\* '- uses: "./local"': a step whose value the pattern of parse_action_version
\* does not match
LocalStepLine == <<"-", " ", "uses:", " ", "./local", "\n">>

TextLines == {StepLine(a, r) : a \in ActionNames, r \in TextRefs} \cup {LocalStepLine}

RECURSIVE Concat(_)
Concat(ss) == IF ss = <<>> THEN <<>> ELSE Head(ss) \o Concat(Tail(ss))

\* The workflow files of one to MaxLines lines
TextContents ==
    { Concat(ls) : ls \in UNION { [1..n -> TextLines] : n \in 1..MaxLines } }

InitText ==
    /\ InitWorld([r \in Repos |-> [f \in FileNames |-> SingleSpace]],
                 [r \in Repos |-> <<>>], "pgoslatara")
    /\ VersionIdle
    /\ HandleIdle
    /\ BranchIdle
    /\ PoolIdle
    /\ OverrideIdle
    /\ text_args \in
           [ content : TextContents, action_name : ActionNames,
             old_version : TextTags, new_version : TextNewVersions, commit_sha : TextShas ]
    /\ text_result = [op |-> "unset"]

\* What no call of a text function changes
textFrame ==
    <<detected_version, latest_version, verdict, text_args, handleVars, branchVars, poolVars, overrideVars,
      catalogVars, ledgerVars,
      platformVars, runVars, pr_dir, github_prs>>

\* replace_action_version_in_content, and once more on its own output
CallReplaceVersion ==
    /\ text_result.op = "unset"
    /\ LET once == replace_action_version_in_content(
                       text_args.content, text_args.action_name,
                       text_args.old_version, text_args.new_version)
       IN  text_result' =
               [ op |-> "bump", once |-> once,
                 twice |-> replace_action_version_in_content(
                               once, text_args.action_name,
                               text_args.old_version, text_args.new_version) ]
    /\ UNCHANGED textFrame

\* _replace_with_sha_comment, and once more on its own output
CallReplaceWithSha ==
    /\ text_result.op = "unset"
    /\ LET once == _replace_with_sha_comment(
                       text_args.content, text_args.action_name,
                       text_args.old_version, text_args.commit_sha)
       IN  text_result' =
               [ op |-> "pin", once |-> once,
                 twice |-> _replace_with_sha_comment(
                               once, text_args.action_name,
                               text_args.old_version, text_args.commit_sha) ]
    /\ UNCHANGED textFrame

\* search_and_extract_actions on the file, save_used_actions, and
\* find_outdated_actions on what was saved
CallExtract ==
    /\ text_result.op = "unset"
    /\ LET written == search_and_extract_actions(
                          "o/r1", ScanPath("o/r1", WorkflowFile), text_args.content)
           usage == save_used_actions({written})
       IN  text_result' =
               [ op |-> "extract", written |-> written, usage |-> usage,
                 outdated |-> find_outdated_actions(usage, {CheckoutEntry}) ]
    /\ UNCHANGED textFrame

\* The mention get_outdated_mentions builds for the arguments: a
\* RepositoryMention, which carries no commit SHA
TextMention ==
    RepositoryMention(
        [ repo_full_name |-> "o/r1", file_path |-> ScanPath("o/r1", WorkflowFile),
          line_number |-> 1, action_name |-> text_args.action_name,
          detected_version |-> text_args.old_version,
          latest_version |-> text_args.new_version,
          stars |-> StarsOf("o/r1"), is_outdated |-> TRUE ])

\* update_workflow_files for that one mention on a checkout holding the
\* content, under either strategy
CallUpdateWorkflowFiles ==
    /\ text_result.op = "unset"
    /\ \E pin \in BOOLEAN :
          LET res == update_workflow_files(
                         pin, <<TextMention>>, [f \in FileNames |-> text_args.content],
                         {}, Unbound)
          IN  text_result' =
                  [ op |-> "update", pin |-> pin, raised |-> res.raised,
                    files |-> res.files, modified_files |-> res.modified_files ]
    /\ UNCHANGED textFrame

\* A second workflow file of the checkout
ReleaseFile == ".github/workflows/release.yml"

\* A mention of the same reference in the second file that carries an empty
\* latest_version: neither branch of the loop assigns new_content for it
UnresolvedMention ==
    RepositoryMention(
        [ repo_full_name |-> "o/r1", file_path |-> ScanPath("o/r1", ReleaseFile),
          line_number |-> 1, action_name |-> text_args.action_name,
          detected_version |-> text_args.old_version,
          latest_version |-> <<>>,
          stars |-> StarsOf("o/r1"), is_outdated |-> TRUE ])

\* update_workflow_files under the version strategy for the two mentions, in
\* either order, on a checkout whose first file holds the content and whose
\* second file holds one step at the detected version
CallUpdateWorkflowFilesOnBatch ==
    /\ text_result.op = "unset"
    /\ \E ms \in {<<TextMention, UnresolvedMention>>, <<UnresolvedMention, TextMention>>} :
          LET checkout == [f \in {WorkflowFile, ReleaseFile} |->
                              IF f = WorkflowFile
                              THEN text_args.content
                              ELSE StepLine(text_args.action_name, text_args.old_version)]
              res == update_workflow_files(FALSE, ms, checkout, {}, Unbound)
          IN  text_result' =
                  [ op |-> "batch", first |-> Head(ms).file_path.file,
                    raised |-> res.raised, before |-> checkout,
                    files |-> res.files, modified_files |-> res.modified_files ]
    /\ UNCHANGED textFrame

NextText ==
    \/ CallReplaceVersion \/ CallReplaceWithSha \/ CallExtract \/ CallUpdateWorkflowFiles
    \/ CallUpdateWorkflowFilesOnBatch

SpecText == InitText /\ [][NextText]_vars

-----------------------------------------------------------------------------
(* Specification SpecQuery: get_outdated_mentions on small tables that hold *)
(* denied repositories and actions and rows that are not outdated          *)

\* The repositories of the tables: one that is on the denylist, one that is not
QueryRepos == {"o/r1", "expo/expo"}

QueryStars(repo_full_name) == IF repo_full_name = "o/r1" THEN 10 ELSE 30

\* The catalog entry of actions/labeler
LabelerEntry ==
    [name |-> "Labeler", owner_repo |-> "actions/labeler",
     latest_version |-> <<"v", "5">>, latest_major_version |-> <<"v", "5">>]

\* The rows outdated_actions can hold for a step of each action in each
\* repository's workflow file, classified either way
QueryRows ==
    { [ repo_full_name       |-> r,
        action_name          |-> e.owner_repo,
        action_version       |-> <<"v", "3">>,
        filepath             |-> ScanPath(r, WorkflowFile),
        line_number          |-> IF e = CheckoutEntry THEN 1 ELSE 2,
        latest_major_version |-> e.latest_major_version,
        is_outdated          |-> o ]
      : r \in QueryRepos, e \in {CheckoutEntry, LabelerEntry}, o \in BOOLEAN }

\* PRIMARY KEY (repo_full_name, filepath, line_number)
PrimaryKeyHolds(rows) ==
    \A x, y \in rows :
        ( x.repo_full_name = y.repo_full_name /\ x.filepath = y.filepath
          /\ x.line_number = y.line_number ) => x = y

QueryTables ==
    { rows \in SUBSET QueryRows : Cardinality(rows) <= MaxRows /\ PrimaryKeyHolds(rows) }

\* The tag index of actions/checkout: the commit of the tag the workflows
\* reference and the commit of the latest release
QueryTags ==
    { [action_name |-> "actions/checkout", tag |-> <<"v", "3">>, commit_sha |-> <<"a", "3">>],
      [action_name |-> "actions/checkout", tag |-> CheckoutEntry.latest_version,
       commit_sha |-> <<"b", "4">>] }

InitQuery ==
    /\ VersionIdle
    /\ TextIdle
    /\ HandleIdle
    /\ BranchIdle
    /\ PoolIdle
    /\ OverrideIdle
    /\ outdated_actions \in QueryTables
    /\ popular_repositories \in
           { {[repo_full_name |-> r, stars |-> QueryStars(r)] : r \in known}
             : known \in {QueryRepos, {"expo/expo"}} }
    /\ popular_actions \in {{CheckoutEntry, LabelerEntry}, {CheckoutEntry}}
    /\ pull_request_exclusions \in SUBSET QueryRepos
    /\ action_tags \in {{}, QueryTags}
    /\ action_usage = {}
    /\ usage_files = [r \in Repos |-> <<>>]
    /\ upstream = [r \in Repos |-> [f \in FileNames |-> SingleSpace]]
    /\ github_prs = [r \in Repos |-> <<>>]
    /\ login = "pgoslatara"
    /\ pull_requests = {}
    /\ tracker = <<>>
    /\ pr_dir = [r \in Repos |-> NoDir]
    /\ entry = "none"
    /\ pc = "idle"
    /\ batch = <<>>
    /\ queue = <<>>
    /\ cur = NoRepo
    /\ pin_to_sha = FALSE
    /\ mode = UpdateMode(FALSE)
    /\ interactive = TRUE
    /\ modified_files = {}
    /\ created_pr = NoPr
    /\ confirmation = NoAnswer
    /\ posts = [forks |-> 0, pulls |-> 0]
    /\ steps = {}
    /\ outcome = "none"
    /\ last_fault = "none"
    /\ attempted = {}
    /\ run_end = "none"
    /\ runs = 0
    /\ ever_excluded = {}

\* db.get_outdated_mentions(): the list it returns, or the ValidationError of
\* the first row RepositoryMention rejects
CallGetOutdatedMentions ==
    /\ text_result.op = "unset"
    /\ IF MentionsValid(OutdatedRows(outdated_actions, popular_repositories,
                                     popular_actions, action_tags,
                                     pull_request_exclusions))
       THEN \E ms \in get_outdated_mentions(outdated_actions, popular_repositories,
                                            popular_actions, action_tags,
                                            pull_request_exclusions) :
               text_result' = [op |-> "query", raised |-> FALSE, mentions |-> ms]
       ELSE text_result' = [op |-> "query", raised |-> TRUE, mentions |-> <<>>]
    /\ UNCHANGED textFrame

NextQuery == CallGetOutdatedMentions

SpecQuery == InitQuery /\ [][NextQuery]_vars

-----------------------------------------------------------------------------
(* Specification SpecHandle: save_popular_action and get_popular_actions on *)
(* one Database handle over a new database file                            *)

\* The actions handed to save_popular_action: two versions of one entry, an
\* entry with a major version and the same entry without one
CatalogInputs ==
    { CheckoutEntry,
      [CheckoutEntry EXCEPT !.latest_version = <<"v", "5">>,
                            !.latest_major_version = <<"v", "5">>],
      LabelerEntry,
      [LabelerEntry EXCEPT !.latest_version = <<"latest">>,
                           !.latest_major_version = None] }

\* A store and a platform on which no command has run
BlankRun ==
    /\ pull_request_exclusions = {}
    /\ action_tags = {}
    /\ usage_files = [r \in Repos |-> <<>>]
    /\ upstream = [r \in Repos |-> [f \in FileNames |-> SingleSpace]]
    /\ github_prs = [r \in Repos |-> <<>>]
    /\ login = "pgoslatara"
    /\ pull_requests = {}
    /\ tracker = <<>>
    /\ pr_dir = [r \in Repos |-> NoDir]
    /\ entry = "none"
    /\ pc = "idle"
    /\ batch = <<>>
    /\ queue = <<>>
    /\ cur = NoRepo
    /\ pin_to_sha = FALSE
    /\ mode = UpdateMode(FALSE)
    /\ interactive = TRUE
    /\ modified_files = {}
    /\ created_pr = NoPr
    /\ confirmation = NoAnswer
    /\ posts = [forks |-> 0, pulls |-> 0]
    /\ steps = {}
    /\ outcome = "none"
    /\ last_fault = "none"
    /\ attempted = {}
    /\ run_end = "none"
    /\ runs = 0
    /\ ever_excluded = {}

InitHandle ==
    /\ VersionIdle
    /\ TextIdle
    /\ HandleIdle
    /\ BranchIdle
    /\ PoolIdle
    /\ OverrideIdle
    /\ popular_actions = {}
    /\ outdated_actions = {}
    /\ action_usage = {}
    /\ popular_repositories = {}
    /\ BlankRun

\* What no call on the handle changes
handleFrame ==
    <<detected_version, latest_version, verdict, text_args, text_result, branchVars, poolVars, overrideVars,
      popular_repositories, action_usage, outdated_actions, action_tags, usage_files,
      ledgerVars, platformVars, runVars, pr_dir, github_prs>>

\* db.save_popular_action(action)
CallSavePopularAction ==
    /\ Len(db_calls) < MaxCalls
    /\ \E action \in CatalogInputs :
          LET res == save_popular_action(popular_actions, action)
          IN  /\ popular_actions' = res.table
              /\ db_calls' = Append(db_calls, [op |-> "save", action |-> action])
              /\ db_result' = [op |-> "save", raised |-> res.raised]
    /\ UNCHANGED db_cache
    /\ UNCHANGED handleFrame

\* db.get_popular_actions(): @cache answers every call after the first on the
\* handle with what the first returned
CallGetPopularActions ==
    /\ Len(db_calls) < MaxCalls
    /\ LET answer == IF db_cache.cached THEN db_cache.actions
                     ELSE get_popular_actions(popular_actions)
       IN  /\ db_cache' = [cached |-> TRUE, actions |-> answer]
           /\ db_result' = [op |-> "get", actions |-> answer]
    /\ db_calls' = Append(db_calls, [op |-> "get"])
    /\ UNCHANGED popular_actions
    /\ UNCHANGED handleFrame

NextHandle == CallSavePopularAction \/ CallGetPopularActions

SpecHandle == InitHandle /\ [][NextHandle]_vars

-----------------------------------------------------------------------------
(* Specification SpecMajor: the major version find_actions derives from a  *)
(* release tag, and what the catalog entry built from it does to           *)
(* get_popular_actions and to find_outdated_actions                        *)

\* The release tags: every short string over VersionChars, and longer tags
\* with minor and patch components, a dangling dot and an empty component
\* (a git tag name holds no control character, so none ends with a newline)
MajorTags ==
    VersionStrings \cup
    { <<"v", "1", ".", "2">>, <<"v", "2", ".", "1", ".", "2">>, <<"1", "2", ".", "1">>,
      <<"v", "2", ".", "1", ".">>, <<"v", "2", ".", ".", "1">> }

\* The refs of the one usage of actions/checkout
MajorRefs == { <<"v", "1">>, <<"v", "2">>, <<"1">> }

\* cli.find_actions: the entry built for a repository whose latest release
\* has this tag
CatalogEntryOf(tag) ==
    [CheckoutEntry EXCEPT !.latest_version = tag,
                          !.latest_major_version = _extract_major_version(tag)]

InitMajor ==
    /\ latest_version \in MajorTags
    /\ detected_version \in MajorRefs
    /\ verdict = "unset"
    /\ TextIdle
    /\ HandleIdle
    /\ BranchIdle
    /\ PoolIdle
    /\ OverrideIdle
    /\ popular_actions = {CatalogEntryOf(latest_version)}
    /\ action_usage =
          save_used_actions({search_and_extract_actions(
              "o/r1", ScanPath("o/r1", WorkflowFile),
              StepLine("actions/checkout", detected_version))})
    /\ outdated_actions = {}
    /\ popular_repositories = {}
    /\ BlankRun

\* client_api._extract_major_version(latest_version)
CallExtractMajorVersion ==
    /\ text_result.op = "unset"
    /\ text_result' = [op |-> "major", value |-> _extract_major_version(latest_version)]
    /\ UNCHANGED <<detected_version, latest_version, verdict, text_args, handleVars,
                   branchVars, poolVars, overrideVars>>
    /\ UNCHANGED <<catalogVars, ledgerVars, platformVars, runVars, pr_dir, github_prs>>

\* db.find_outdated_actions()
CallFindOutdatedActions ==
    /\ Len(db_calls) < MaxCalls
    /\ outdated_actions' = find_outdated_actions(action_usage, popular_actions)
    /\ db_calls' = Append(db_calls, [op |-> "find_outdated_actions"])
    /\ db_result' = [op |-> "find_outdated_actions"]
    /\ UNCHANGED db_cache
    /\ UNCHANGED <<detected_version, latest_version, verdict, text_args, text_result,
                   branchVars, poolVars, overrideVars>>
    /\ UNCHANGED <<popular_actions, popular_repositories, action_usage, action_tags,
                   usage_files>>
    /\ UNCHANGED <<ledgerVars, platformVars, runVars, pr_dir, github_prs>>

NextMajor == CallExtractMajorVersion \/ CallGetPopularActions \/ CallFindOutdatedActions

SpecMajor == InitMajor /\ [][NextMajor]_vars

-----------------------------------------------------------------------------
(* Specification SpecBranch: create_branch in repeated and in concurrent   *)
(* runs, on a clock that advances between calls or does not                *)

InitBranch ==
    /\ VersionIdle
    /\ TextIdle
    /\ HandleIdle
    /\ BranchIdle
    /\ PoolIdle
    /\ OverrideIdle
    /\ popular_actions = {}
    /\ outdated_actions = {}
    /\ action_usage = {}
    /\ popular_repositories = {}
    /\ BlankRun

\* What neither the clock nor create_branch changes
branchFrame ==
    <<detected_version, latest_version, verdict, text_args, text_result, handleVars,
      poolVars, overrideVars, catalogVars, ledgerVars, platformVars, runVars, pr_dir, github_prs>>

\* A second passes
Tick ==
    /\ clock < MaxClock
    /\ clock' = clock + 1
    /\ UNCHANGED branches
    /\ UNCHANGED branchFrame

\* create_branch(repo, prefix) in the checkout of one repository, by a run of
\* either strategy
CallCreateBranch ==
    /\ Len(branches) < MaxBranches
    /\ \E pin \in BOOLEAN, r \in Repos :
          branches' = Append(branches,
                             [ repo_full_name |-> r,
                               prefix         |-> BranchPrefix(pin),
                               branch_name    |-> create_branch(BranchPrefix(pin), clock) ])
    /\ UNCHANGED clock
    /\ UNCHANGED branchFrame

NextBranch == Tick \/ CallCreateBranch

SpecBranch == InitBranch /\ [][NextBranch]_vars

-----------------------------------------------------------------------------
(* Specification SpecLedger: add_repo_to_pr_exclusions and save_pr_record, *)
(* in any order, on the two ledgers of a new database file                 *)

\* The records handed to save_pr_record: two pull requests, each as it is
\* created and as it is after a later poll
LedgerRecords ==
    { [repo_full_name |-> r, pr_url |-> <<r, 1>>, branch_name |-> BranchName(FALSE),
       status |-> st] : r \in Repos, st \in {"open", "closed"} }

InitLedger ==
    /\ VersionIdle
    /\ TextIdle
    /\ HandleIdle
    /\ BranchIdle
    /\ PoolIdle
    /\ OverrideIdle
    /\ popular_actions = {}
    /\ outdated_actions = {}
    /\ action_usage = {}
    /\ popular_repositories = {}
    /\ BlankRun

\* What no write to a ledger changes
ledgerFrame ==
    <<detected_version, latest_version, verdict, text_args, text_result, branchVars, poolVars, overrideVars,
      db_cache, catalogVars, tracker, ever_excluded, platformVars, runVars, pr_dir,
      github_prs>>

\* db.add_repo_to_pr_exclusions(repo_full_name)
CallAddRepoToPrExclusions ==
    /\ Len(db_calls) < MaxCalls
    /\ \E r \in Repos :
          /\ pull_request_exclusions' =
                 add_repo_to_pr_exclusions(pull_request_exclusions, r)
          /\ db_calls' = Append(db_calls, [op |-> "exclude", repo_full_name |-> r])
    /\ db_result' = [op |-> "exclude", exclusions |-> pull_request_exclusions,
                     records |-> pull_requests]
    /\ UNCHANGED pull_requests
    /\ UNCHANGED ledgerFrame

\* db.save_pr_record(pr)
CallSavePrRecord ==
    /\ Len(db_calls) < MaxCalls
    /\ \E pr \in LedgerRecords :
          /\ pull_requests' = save_pr_record(pull_requests, pr)
          /\ db_calls' = Append(db_calls, [op |-> "save_pr", pr |-> pr])
    /\ db_result' = [op |-> "save_pr", exclusions |-> pull_request_exclusions,
                     records |-> pull_requests]
    /\ UNCHANGED pull_request_exclusions
    /\ UNCHANGED ledgerFrame

NextLedger == CallAddRepoToPrExclusions \/ CallSavePrRecord

SpecLedger == InitLedger /\ [][NextLedger]_vars

-----------------------------------------------------------------------------
(* Specification SpecPool: the commands fetch_repos and scan_repos, each   *)
(* with a Pool whose tasks run in any interleaving                         *)

PoolRow(r, archived, fork) ==
    [repo_full_name |-> r, stars |-> 10, archived |-> archived, fork |-> fork]

\* The repository tables: none found, every repository live (and one that
\* is excluded by configuration), only filtered-out rows, and one live row
PoolTables ==
    { {},
      {PoolRow(r, FALSE, FALSE) : r \in PoolRepos \cup ExcludeRepos},
      {PoolRow(<<"o", "/", "r">>, TRUE, FALSE), PoolRow(<<"p", "/", "r">>, FALSE, TRUE),
       PoolRow(<<"x", "/", "y">>, FALSE, FALSE)},
      {PoolRow(<<"o", "/", "r", "_", "s">>, FALSE, FALSE)} }

\* The catalogs: empty, one entry, and one entry without a major version
PoolCatalogs ==
    { {}, {CheckoutEntry},
      {[CheckoutEntry EXCEPT !.latest_version = <<"latest">>,
                             !.latest_major_version = None]} }

InitPool ==
    /\ VersionIdle
    /\ TextIdle
    /\ HandleIdle
    /\ BranchIdle
    /\ PoolIdle
    /\ OverrideIdle
    /\ popular_actions \in PoolCatalogs
    /\ popular_repositories \in PoolTables
    /\ outdated_actions = {}
    /\ action_usage = {}
    /\ BlankRun

\* What neither command changes
poolFrame ==
    <<detected_version, latest_version, verdict, text_args, text_result, handleVars,
      branchVars, overrideVars, popular_actions, popular_repositories, outdated_actions,
      action_tags, usage_files, ledgerVars, platformVars, pr_dir, github_prs,
      pc, batch, queue, cur, pin_to_sha, mode, interactive, modified_files, created_pr,
      confirmation, posts, steps, outcome, attempted>>

\* The command raises: the with-block terminates the Pool
Raise(call) ==
    /\ entry' = "none"
    /\ run_end' = "raised"
    /\ last_fault' = call

Touch(r, path, how) ==
    accesses' = accesses \cup {[task |-> r, path |-> path, mode |-> how]}

Finished == \A r \in PoolRepos : pool[r].at \in {"none", "done"}

\* fetch_repos up to the creation of the Pool
FetchStart ==
    /\ entry = "none"
    /\ runs < MaxRuns
    /\ runs' = runs + 1
    /\ LET known_repos == get_popular_repos(popular_repositories)
       IN  IF fetch_repos_refuses(known_repos) # "none"
           THEN /\ Raise("fetch_repos")
                /\ UNCHANGED <<pool, accesses>>
           ELSE /\ entry' = "fetch"
                /\ run_end' = "none"
                /\ last_fault' = "none"
                /\ pool' = [r \in PoolRepos |->
                              [at |-> IF r \in known_repos THEN "queued" ELSE "none"]]
                /\ accesses' = {}
    /\ UNCHANGED <<temp_files, action_usage>>
    /\ UNCHANGED poolFrame

\* _fetch_repo_contents, git_clone_sparse lines 41-44: the old checkout is
\* removed and the directory made anew
FetchClear ==
    /\ entry = "fetch"
    /\ \E r \in PoolRepos :
          /\ pool[r].at = "queued"
          /\ temp_files' = [temp_files EXCEPT
                               ![ClonedRepos] = [exists |-> TRUE],
                               ![checkout_dir(r)] = [exists |-> TRUE, content |-> <<>>]]
          /\ Touch(r, checkout_dir(r), "write")
          /\ pool' = [pool EXCEPT ![r] = [at |-> "cloning"]]
    /\ UNCHANGED <<entry, run_end, last_fault, runs, action_usage>>
    /\ UNCHANGED poolFrame

\* git_clone_sparse lines 45-61: init, fetch and checkout; a fault that the
\* retry does not cure leaves the task and ends the command
FetchClone ==
    /\ entry = "fetch"
    /\ \E r \in PoolRepos, ok \in BOOLEAN :
          /\ pool[r].at = "cloning"
          /\ Touch(r, checkout_dir(r), "write")
          /\ IF ok
             THEN /\ temp_files' = [temp_files EXCEPT ![checkout_dir(r)] =
                                       [exists |-> TRUE, content |-> SingleSpace]]
                  /\ pool' = [pool EXCEPT ![r] = [at |-> "done"]]
                  /\ UNCHANGED <<entry, run_end, last_fault>>
             ELSE /\ UNCHANGED temp_files
                  /\ pool' = [x \in PoolRepos |-> [at |-> "none"]]
                  /\ Raise("_fetch_repo_contents")
    /\ UNCHANGED <<runs, action_usage>>
    /\ UNCHANGED poolFrame

\* Every task is done: fetch_repos returns
FetchEnd ==
    /\ entry = "fetch"
    /\ Finished
    /\ entry' = "none"
    /\ run_end' = "returned"
    /\ pool' = [r \in PoolRepos |-> [at |-> "none"]]
    /\ UNCHANGED <<temp_files, accesses, last_fault, runs, action_usage>>
    /\ UNCHANGED poolFrame

\* scan_repos up to the creation of the Pool
ScanStart ==
    /\ entry = "none"
    /\ runs < MaxRuns
    /\ runs' = runs + 1
    /\ LET known_repos == get_popular_repos(popular_repositories)
       IN  IF scan_repos_refuses(popular_actions, known_repos, temp_files) # "none"
           THEN /\ Raise("scan_repos")
                /\ UNCHANGED <<pool, accesses>>
           ELSE /\ entry' = "scan"
                /\ run_end' = "none"
                /\ last_fault' = "none"
                /\ pool' = [r \in PoolRepos |->
                              [at |-> IF r \in known_repos THEN "queued" ELSE "none"]]
                /\ accesses' = {}
    /\ UNCHANGED <<temp_files, action_usage>>
    /\ UNCHANGED poolFrame

\* search_and_extract_actions up to the dump: without a checkout the task
\* returns, with one it walks the checkout
ScanRead ==
    /\ entry = "scan"
    /\ \E r \in PoolRepos :
          /\ pool[r].at = "queued"
          /\ Touch(r, checkout_dir(r), "read")
          /\ pool' = [pool EXCEPT ![r] =
                         IF temp_files[checkout_dir(r)].exists
                         THEN [at |-> "extracted",
                               used_actions |-> search_and_extract_actions(
                                   r, ScanPath(r, WorkflowFile),
                                   temp_files[checkout_dir(r)].content)]
                         ELSE [at |-> "done"]]
    /\ UNCHANGED <<temp_files, entry, run_end, last_fault, runs, action_usage>>
    /\ UNCHANGED poolFrame

\* search_and_extract_actions lines 229-232: mkdir and json.dump
ScanWrite ==
    /\ entry = "scan"
    /\ \E r \in PoolRepos :
          /\ pool[r].at = "extracted"
          /\ temp_files' = [temp_files EXCEPT ![usage_file(r)] =
                               [exists |-> TRUE, content |-> pool[r].used_actions]]
          /\ Touch(r, usage_file(r), "write")
          /\ pool' = [pool EXCEPT ![r] = [at |-> "done"]]
    /\ UNCHANGED <<entry, run_end, last_fault, runs, action_usage>>
    /\ UNCHANGED poolFrame

\* Every task is done: save_used_actions loads every usage file there is
ScanSave ==
    /\ entry = "scan"
    /\ Finished
    /\ action_usage' =
          save_used_actions({temp_files[usage_file(r)].content :
                               r \in {x \in PoolRepos : temp_files[usage_file(x)].exists}})
    /\ entry' = "none"
    /\ run_end' = "returned"
    /\ pool' = [r \in PoolRepos |-> [at |-> "none"]]
    /\ UNCHANGED <<temp_files, accesses, last_fault, runs>>
    /\ UNCHANGED poolFrame

NextPool ==
    \/ FetchStart \/ FetchClear \/ FetchClone \/ FetchEnd
    \/ ScanStart \/ ScanRead \/ ScanWrite \/ ScanSave

SpecPool == InitPool /\ [][NextPool]_vars

-----------------------------------------------------------------------------
(* Specification SpecTracker: update_tracker and update_pr_statuses, in    *)
(* any order, on PR_TRACKER.md                                             *)

\* The URLs of two pull requests on github.com and of one elsewhere
GithubUrls ==
    { <<"https://github.com/", "o", "/", "r1", "/pull/", "1">>,
      <<"https://github.com/", "o", "/", "r2", "/pull/", "1", "2">> }

TrackerUrls == GithubUrls \cup { <<"https://ghe.example/", "o", "/", "r1", "/pull/", "1">> }

\* The records record_pr hands to update_tracker: the pull request is open
TrackerRecords ==
    { [repo_full_name |-> "o/r1", pr_url |-> u, created_at |-> "2024-05-01",
       status |-> "open"] : u \in TrackerUrls }

\* What get_pull_request_details answers for one URL, Missing when it raises
PollAnswers ==
    { Missing,
      [exists |-> TRUE, merged |-> FALSE, state |-> "open"],
      [exists |-> TRUE, merged |-> FALSE, state |-> "closed"],
      [exists |-> TRUE, merged |-> TRUE, state |-> "closed"] }

InitTracker ==
    /\ VersionIdle
    /\ HandleIdle
    /\ BranchIdle
    /\ PoolIdle
    /\ OverrideIdle
    /\ text_args = [created |-> <<>>]
    /\ text_result = [op |-> "unset"]
    /\ popular_actions = {}
    /\ outdated_actions = {}
    /\ action_usage = {}
    /\ popular_repositories = {}
    /\ BlankRun

\* What no call on the tracker changes
trackerFrame ==
    <<detected_version, latest_version, verdict, handleVars, branchVars, poolVars, overrideVars,
      catalogVars, pull_request_exclusions, pull_requests, ever_excluded, platformVars,
      runVars, pr_dir, github_prs>>

\* update_tracker(pr)
CallUpdateTracker ==
    /\ Len(text_args.created) < MaxCalls
    /\ \E pr \in TrackerRecords :
          /\ tracker' = update_tracker_file(tracker, pr)
          /\ text_args' = [created |-> Append(text_args.created, pr)]
          /\ text_result' = [op |-> "update_tracker"]
    /\ UNCHANGED trackerFrame

\* update_pr_statuses(client): without the file it returns at once
CallUpdatePrStatuses ==
    /\ \E poll \in [GithubUrls -> PollAnswers] :
          /\ tracker' = IF tracker = <<>> THEN tracker
                        ELSE update_pr_statuses(tracker, poll)
          /\ text_result' = [op |-> "update_pr_statuses", poll |-> poll]
    /\ UNCHANGED text_args
    /\ UNCHANGED trackerFrame

NextTracker == CallUpdateTracker \/ CallUpdatePrStatuses

SpecTracker == InitTracker /\ [][NextTracker]_vars

-----------------------------------------------------------------------------
(* Specification SpecOverride: constructions of a PullRequestCreator and    *)
(* calls of create_prs and create_pr_for_repo on it, with and without a     *)
(* pin_to_sha argument, ending in a return or in an exception               *)

\* The pin_to_sha argument of a call: None, True or False
Overrides == {NoOverride} \cup {[given |-> TRUE, value |-> b] : b \in BOOLEAN}

\* How create_pr_for_repo ends: return None, return the record, an exception
\* of a call in its try block
RepoExits == {"none", "record", "error"}

\* How create_prs ends
BatchExits == {"returned", "error"}

\* self.pin_to_sha and self.mode
Fields == [pin_to_sha |-> pin_to_sha, mode |-> mode]

\* if pin_to_sha is not None: self.pin_to_sha = pin_to_sha; self.mode = ...
set_override(fields, override) ==
    IF override.given
    THEN [pin_to_sha |-> override.value, mode |-> UpdateMode(override.value)]
    ELSE fields

\* A finally block that puts back pin_to_sha and leaves mode
finally_restore_flag_only(fields, override, saved) ==
    IF override.given THEN [fields EXCEPT !.pin_to_sha = saved.value] ELSE fields

\* The finally block of create_pr_for_repo
finally_restore(fields, override, saved) ==
    IF override.given
    THEN [pin_to_sha |-> saved.value, mode |-> UpdateMode(saved.value)]
    ELSE fields

InitOverride ==
    /\ VersionIdle
    /\ TextIdle
    /\ HandleIdle
    /\ BranchIdle
    /\ PoolIdle
    /\ OverrideIdle
    /\ popular_actions = {}
    /\ outdated_actions = {}
    /\ action_usage = {}
    /\ popular_repositories = {}
    /\ BlankRun

\* What no call on the creator changes
overrideFrame ==
    <<detected_version, latest_version, verdict, text_args, text_result, handleVars,
      branchVars, poolVars, catalogVars, ledgerVars, platformVars, pr_dir, github_prs,
      entry, pc, batch, queue, cur, interactive, modified_files, created_pr, confirmation,
      posts, steps, outcome, last_fault, attempted, run_end, runs>>

\* The call is over: it is the last of the calls made
Made(op, override, exit) == Append(creator_call.made, [op |-> op, override |-> override, exit |-> exit])

\* PullRequestCreator(pin_to_sha=p)
Construct ==
    /\ creator_call.at = "idle"
    /\ Len(creator_call.made) < MaxCalls
    /\ \E p \in BOOLEAN :
          /\ pin_to_sha' = p
          /\ mode' = UpdateMode(p)
          /\ creator_call' =
                 [ at |-> "idle", op |-> "__init__", override |-> [given |-> TRUE, value |-> p],
                   old_pin_to_sha |-> NotSaved, before |-> Fields, exit |-> "returned",
                   made |-> Made("__init__", [given |-> TRUE, value |-> p], "returned") ]
    /\ UNCHANGED overrideFrame

\* create_prs(mentions, interactive, pin_to_sha): the argument is stored when
\* given; the calls of create_pr_for_repo in its loop carry no pin_to_sha
\* argument, so that neither they nor an exception of theirs change the fields.
CallCreatePrs ==
    /\ creator_call.at = "idle"
    /\ Len(creator_call.made) < MaxCalls
    /\ \E override \in Overrides, exit \in BatchExits :
          /\ pin_to_sha' = set_override(Fields, override).pin_to_sha
          /\ mode' = set_override(Fields, override).mode
          /\ creator_call' =
                 [ at |-> "idle", op |-> "create_prs", override |-> override,
                   old_pin_to_sha |-> NotSaved, before |-> Fields, exit |-> exit,
                   made |-> Made("create_prs", override, exit) ]
    /\ UNCHANGED overrideFrame

\* create_pr_for_repo up to its try block
EnterCreatePrForRepo ==
    /\ creator_call.at = "idle"
    /\ Len(creator_call.made) < MaxCalls
    /\ \E override \in Overrides :
          /\ pin_to_sha' = set_override(Fields, override).pin_to_sha
          /\ mode' = set_override(Fields, override).mode
          /\ creator_call' =
                 [ at |-> "try", op |-> "create_pr_for_repo", override |-> override,
                   old_pin_to_sha |-> IF override.given
                                      THEN [bound |-> TRUE, value |-> pin_to_sha]
                                      ELSE NotSaved,
                   before |-> Fields, exit |-> "none", made |-> creator_call.made ]
    /\ UNCHANGED overrideFrame

\* The try block is left, by a return or by an exception, through the finally
\* block
ExitCreatePrForRepo ==
    /\ creator_call.at = "try"
    /\ \E exit \in RepoExits :
          LET restored == finally_restore(Fields, creator_call.override,
                                          creator_call.old_pin_to_sha)
          IN  /\ pin_to_sha' = restored.pin_to_sha
              /\ mode' = restored.mode
              /\ creator_call' =
                     [creator_call EXCEPT
                          !.at = "idle", !.exit = exit,
                          !.made = Made("create_pr_for_repo", creator_call.override, exit)]
    /\ UNCHANGED overrideFrame

NextOverride == Construct \/ CallCreatePrs \/ EnterCreatePrForRepo \/ ExitCreatePrForRepo

SpecOverride == InitOverride /\ [][NextOverride]_vars

-----------------------------------------------------------------------------
(* Specification SpecConflict: should_create_pr on every short list of open *)
(* workflow pull requests, under either strategy                           *)

\* Titles of open pull requests: the phrasings of dependency bots, titles about
\* pinning, and titles that are neither; with capitals and surrounding blanks
ConflictTitles ==
    { ExampleBotTitle,
      <<"Pin", " ", "actions", " ", "to", " ", "SHA">>,
      <<"Use", " ", "commit", " ", "sha">>,
      <<"Pin", " ", "node">>,
      <<"Fix", " ", "ci", " ", "cache">>,
      <<" ", "Bump", " ", "the", " ", "github-actions", " ", "group", " ">>,
      <<"ci:", " ", "Bump", " ", "actions/", "checkout">>,
      <<"chore", "(deps):", " ", "update", " ", "actions/", "checkout">>,
      <<"bump">> }

ConflictAuthors == {"pgoslatara", "dependabot[bot]"}

\* The entries find_workflow_yaml_prs returns for such pull requests
ConflictPrs ==
    { [number |-> 1, title |-> t, file_modified |-> WorkflowFileName, author |-> a]
      : t \in ConflictTitles, a \in ConflictAuthors }

InitConflict ==
    /\ InitWorld([r \in Repos |-> [f \in FileNames |-> SingleSpace]],
                 [r \in Repos |-> <<>>], "pgoslatara")
    /\ VersionIdle
    /\ HandleIdle
    /\ BranchIdle
    /\ PoolIdle
    /\ OverrideIdle
    /\ text_args \in
           [ existing_prs : UNION { [1..n -> ConflictPrs] : n \in 0..MaxPrs },
             pin_to_sha : BOOLEAN ]
    /\ text_result = [op |-> "unset"]

\* creator.should_create_pr(existing_prs)
CallShouldCreatePr ==
    /\ text_result.op = "unset"
    /\ text_result' =
           [ op |-> "should_create_pr",
             value |-> should_create_pr(text_args.pin_to_sha, text_args.existing_prs) ]
    /\ UNCHANGED textFrame

NextConflict == CallShouldCreatePr

SpecConflict == InitConflict /\ [][NextConflict]_vars

-----------------------------------------------------------------------------
(* Properties of the remediation runs, checked under Spec *)

\* The pull requests this tool has opened on a repository
ToolPrs(repo_full_name) ==
    {i \in DOMAIN github_prs[repo_full_name] :
        github_prs[repo_full_name][i].origin = "actup"}

\* C1: across all runs at most one pull request is ever created for a
\* repository, also when a step that follows the creation (the write of the
\* status record, of the exclusion, of the tracker row) fails.
C1_AtMostOnePrPerRepository ==
    \A r \in Repos : Cardinality(ToolPrs(r)) <= 1

\* C2: once add_repo_to_pr_exclusions(r) has been executed, no list that
\* get_outdated_mentions returns afterwards has a mention of r, whatever the
\* program does in between, and the exclusion record of r is never removed.
C2_ExcludedNeverSelected ==
    \A r \in ever_excluded :
        /\ r \in pull_request_exclusions
        /\ \A ms \in get_outdated_mentions(outdated_actions, popular_repositories,
                                           popular_actions, action_tags,
                                           pull_request_exclusions) :
              \A i \in DOMAIN ms : ms[i].repo_full_name # r

\* A later run has started with a non-empty list while a repository that is
\* still classified as outdated is excluded.
C2_Witness ==
    /\ entry # "none"
    /\ pc = "loop"
    /\ attempted = {}
    /\ batch # <<>>
    /\ \E r \in ever_excluded :
          \E row \in outdated_actions : row.repo_full_name = r /\ row.is_outdated

\* C3: whenever create_pr_for_repo returns, with any of its outcomes (no file
\* changed, conflicting pull request, declined, pull request created), the
\* repository has an exclusion record.
C3_ExcludedAtReturn ==
    (entry = "creator" /\ pc = "ret") => cur \in pull_request_exclusions

C3_Witness ==
    /\ entry = "creator"
    /\ pc = "ret"
    /\ outcome = "created"
    /\ cur \in pull_request_exclusions

\* C4: when the rewrite changes no file, the repository is marked excluded and
\* its processing stops with no commit, push, conflict check or creation call,
\* in both orchestrators.
C4_NoChangeExcludesAndStops ==
    (pc = "ret" /\ outcome = "no_change") =>
        /\ cur \in pull_request_exclusions
        /\ steps \cap {"commit_push", "conflict_check", "create_pr"} = {}
        /\ posts.pulls = 0

\* An open pull request with the title of a dependency bot that touches a
\* workflow file
HasBotBumpPr(open_prs) ==
    \E i \in DOMAIN open_prs :
        /\ open_prs[i].title = ExampleBotTitle
        /\ \E f \in DOMAIN open_prs[i].files : open_prs[i].files[f] = WorkflowFileName

C6_AtMostOneCreationRequest ==
    posts.pulls <= 1

\* C7: a repository that fails does not stop create_prs: when the run is over
\* every repository of its list has been attempted.
C7_RunAttemptsEveryRepository ==
    (entry = "none" /\ run_end # "none") =>
        \A i \in DOMAIN batch : batch[i].repo_full_name \in attempted

\* C8: the checkout of a repository is removed on every way out of its
\* processing, by return or by error: a checkout exists only while its
\* repository is being processed.
C8_CheckoutRemovedOnExit ==
    \A r \in Repos :
        pr_dir[r].exists => (entry # "none" /\ cur = r /\ pc \notin {"ret", "loop"})

-----------------------------------------------------------------------------
(* Properties of is_major_version_outdated, checked under SpecVersion *)

Empty(version) == version = None \/ version = <<>>

\* Not a number once one leading "v" is taken off
NonNumericAfterOneStrip(version) ==
    \/ Empty(version)
    \/ ~IsIntLiteral(SplitFirst(StripOne(version, "v"), "."))

\* C9: when either version is empty or not numeric after one leading "v" is
\* stripped ("vv3", "main", "v"), the result is false and nothing is raised.
C9_NonNumericIsNotOutdated ==
    ( /\ verdict # "unset"
      /\ NonNumericAfterOneStrip(detected_version)
         \/ NonNumericAfterOneStrip(latest_version) )
    => verdict = "false"

\* "v", then the digits of the major number, then nothing or "." and the rest
IsVersionForm(version) ==
    /\ version # None
    /\ Len(version) >= 2
    /\ version[1] = "v"
    /\ version[2] \in Digits
    /\ \A i \in 2..Len(version) :
          (\A j \in 2..i : version[j] \in Digits) \/ (\E j \in 2..i : version[j] = ".")

\* The major number of a version of that form, digit by digit
RECURSIVE DigitsValue(_, _, _)
DigitsValue(version, i, acc) ==
    IF i > Len(version) \/ version[i] \notin Digits THEN acc
    ELSE DigitsValue(version, i + 1, acc * 10 + DigitValue(version[i]))

MajorNumber(version) == DigitsValue(version, 2, 0)

\* C10: for versions of the form v<major>[.<minor>...] the result is true
\* exactly when the detected major number is less than the latest one, as
\* numbers (v3 against v4: true; v4 against v4: false; v10 against v2: false).
C10_OutdatedIffMajorIsLess ==
    (verdict # "unset" /\ IsVersionForm(detected_version) /\ IsVersionForm(latest_version))
    => (verdict = "true" <=> MajorNumber(detected_version) < MajorNumber(latest_version))

\* A two-digit major that is greater as a number and smaller as a string
C10_Witness ==
    /\ detected_version = <<"v", "1", "2">>
    /\ latest_version = <<"v", "2">>
    /\ verdict = "false"

-----------------------------------------------------------------------------
(* Properties of the text functions, checked under SpecText *)

\* C11: for every content, action name and versions old and new, applying
\* replace_action_version_in_content a second time with the same arguments
\* changes nothing: twice gives what once gives.
C11_VersionReplaceIdempotent ==
    text_result.op = "bump" => text_result.twice = text_result.once

\* How many times pat occurs in s
Occurrences(s, pat) ==
    Cardinality({i \in 1..(Len(s) - Len(pat) + 1) : SubSeq(s, i, i + Len(pat) - 1) = pat})

\* "uses: <action>@<sha> #<tag>"
PinnedRef(action_name, tag, sha) ==
    <<"uses:", " ", action_name, "@">> \o sha \o <<" ", "#">> \o tag

\* C12: the pin-to-commit rewrite turns every "uses: <action>@<tag>" of the
\* content into "uses: <action>@<sha> #<tag>" and leaves the rest as it is, and
\* the same rewrite applied to its own output changes nothing.
C12_PinRewritesAndIsIdempotent ==
    text_result.op = "pin" =>
        LET old_ref == <<"uses:", " ", text_args.action_name, "@">> \o text_args.old_version
            new_ref == PinnedRef(text_args.action_name, text_args.old_version,
                                 text_args.commit_sha)
            n == Occurrences(text_args.content, old_ref)
        IN  /\ Occurrences(text_result.once, new_ref) = n
            /\ Occurrences(text_result.once, old_ref) = 0
            /\ Len(text_result.once) =
                   Len(text_args.content) + n * (Len(new_ref) - Len(old_ref))
            /\ text_result.twice = text_result.once

\* A file with two steps at the tag, both pinned
C12_Witness ==
    /\ text_result.op = "pin"
    /\ text_args.action_name = "actions/checkout"
    /\ text_args.old_version = <<"v", "2">>
    /\ text_args.commit_sha = <<"a", "1">>
    /\ text_args.content = <<"-", " ", "uses:", " ", "actions/checkout", "@", "v", "2", "\n",
                             "-", " ", "uses:", " ", "actions/checkout", "@", "v", "2", "\n">>
    /\ text_result.once = <<"-", " ", "uses:", " ", "actions/checkout", "@", "a", "1",
                            " ", "#", "v", "2", "\n",
                            "-", " ", "uses:", " ", "actions/checkout", "@", "a", "1",
                            " ", "#", "v", "2", "\n">>

\* The lines of the content, and the (name, ref) the pattern finds on line i
TextLine(i) == splitlines(text_args.content)[i]

\* C13: when two steps of a workflow file reference the same action on two
\* different lines, the extraction yields a mention for each of the two lines,
\* carrying that line's number and that line's ref.
C13_OneMentionPerMatchingLine ==
    text_result.op = "extract" =>
        \A i, j \in 1..Len(splitlines(text_args.content)) :
            ( /\ i # j
              /\ parse_action_version(TextLine(i)) # None
              /\ parse_action_version(TextLine(j)) # None
              /\ parse_action_version(TextLine(i))[1] = parse_action_version(TextLine(j))[1] )
            => \E u \in text_result.usage :
                    /\ u.line_number = i
                    /\ u.action_name = parse_action_version(TextLine(i))[1]
                    /\ u.action_version = parse_action_version(TextLine(i))[2]

\* C14: the version rewrite for (action, detected, latest) changes only the
\* references to that action whose written ref is exactly the detected version;
\* a line referencing another version of the action, or another action, or no
\* action at all, is the same after the rewrite as before.
C14_RewriteTouchesOnlyDetectedVersion ==
    text_result.op = "bump" =>
        /\ Len(splitlines(text_result.once)) = Len(splitlines(text_args.content))
        /\ \A i \in 1..Len(splitlines(text_args.content)) :
              ( \/ parse_action_version(TextLine(i)) = None
                \/ parse_action_version(TextLine(i))[1] # text_args.action_name
                \/ parse_action_version(TextLine(i))[2] # text_args.old_version )
              => splitlines(text_result.once)[i] = TextLine(i)

-----------------------------------------------------------------------------
(* Properties of the rewrite and of the confirmation, checked under Spec *)

\* The rewrite of the repository being processed is done and its checkout is
\* still there
Rewritten ==
    /\ entry # "none"
    /\ cur # NoRepo
    /\ "rewrite" \in steps
    /\ pr_dir[cur].exists

Declined ==
    /\ entry # "none"
    /\ confirmation # NoAnswer
    /\ confirmation \notin {<<"y">>, <<"Y">>}

\* C17: in an interactive run the creation call is issued only after the
\* operator answered "y"; after any other answer no creation request is sent, no
\* pull request is created or recorded for the repository, and the repository
\* is excluded when its processing returns.
C17_CreationOnlyAfterConfirmation ==
    /\ ( /\ entry # "none"
         /\ interactive
         /\ \/ pc \in {"create_pr", "record_pr"}
            \/ "create_pr" \in steps
            \/ posts.pulls > 0 )
       => confirmation \in {<<"y">>, <<"Y">>}
    /\ Declined =>
          /\ pc \notin {"create_pr", "record_pr", "cleanup"}
          /\ steps \cap {"create_pr", "record", "cleanup"} = {}
          /\ posts.pulls = 0
          /\ created_pr = NoPr
          /\ pc \in {"ret", "loop"} => /\ cur \in pull_request_exclusions
                                       /\ outcome = "declined"

C17_Witness ==
    /\ Declined
    /\ pc = "ret"
    /\ outcome = "declined"
    /\ cur \in pull_request_exclusions
    /\ github_prs[cur] = <<>>

\* C20: the mentions of a run are in ascending order of their repository's
\* stars, and the repositories are processed in the order of their first
\* appearance: no repository taken up so far has more stars than the one being
\* processed or than one still waiting.
C20_ProcessedInAscendingStars ==
    entry # "none" =>
        /\ \A i, j \in 1..Len(batch) : i < j => batch[i].stars <= batch[j].stars
        /\ \A i, j \in 1..Len(batch) :
              ( /\ batch[i].repo_full_name \in attempted
                /\ \/ batch[j].repo_full_name \notin attempted
                   \/ batch[j].repo_full_name = cur )
              => batch[i].stars <= batch[j].stars
        /\ \A i \in 1..Len(queue) : queue[i] \notin attempted

C20_Witness ==
    /\ entry # "none"
    /\ cur = "o/r2"
    /\ attempted = {"o/r1", "o/r2"}
    /\ \E i, j \in 1..Len(batch) :
          /\ batch[i].repo_full_name = "o/r1"
          /\ batch[j].repo_full_name = "o/r2"
          /\ batch[i].stars < batch[j].stars

\* The processing of the current repository is over and it created a pull
\* request
ReturnedWithPr ==
    /\ entry # "none"
    /\ cur # NoRepo
    /\ created_pr # NoPr
    /\ pc \in {"ret", "loop"}

\* C21: once a pull request was created for a repository and before the next
\* repository is taken up, its status record, keyed by the URL, is stored, one
\* tracker row for it is appended and the repository is excluded; within one
\* run a repository reaches the creation step at most once.
C21_CreatedPrIsRecordedBeforeNextRepository ==
    /\ ReturnedWithPr =>
          /\ \E x \in pull_requests :
                x.pr_url = created_pr.html_url /\ x.repo_full_name = cur
          /\ \A x, y \in pull_requests : x.pr_url = y.pr_url => x = y
          /\ Cardinality({i \in 1..Len(tracker) :
                             tracker[i].pr_url = created_pr.html_url}) = 1
          /\ cur \in pull_request_exclusions
    /\ entry # "none" =>
          /\ \A i, j \in 1..Len(queue) : i # j => queue[i] # queue[j]
          /\ \A i \in 1..Len(queue) : queue[i] # cur /\ queue[i] \notin attempted
          /\ pc = "create_pr" => created_pr = NoPr /\ "create_pr" \notin steps

C21_Witness ==
    /\ ReturnedWithPr
    /\ pc = "loop"
    /\ queue # <<>>
    /\ outcome = "created"
    /\ \E x \in pull_requests : x.pr_url = created_pr.html_url

\* An open pull request on the current repository that touches a workflow
\* file and was authored by the user the run is authenticated as
OwnOpenWorkflowPr ==
    \E i \in 1..Len(find_workflow_yaml_prs(github_prs[cur])) :
        find_workflow_yaml_prs(github_prs[cur])[i].author = login

\* C24: when an open workflow pull request on the repository was authored by
\* the authenticated user, the conflict check stops the pipeline: no pull
\* request is created and the repository is marked excluded, whatever the title.
C24_OwnOpenPrBlocksCreation ==
    ( /\ entry = "creator"
      /\ cur # NoRepo
      /\ "conflict_check" \in steps
      /\ created_pr = NoPr
      /\ OwnOpenWorkflowPr )
    => /\ pc \in {"exit_existing_pr", "ret", "loop"}
       /\ posts.pulls = 0
       /\ pc \in {"ret", "loop"} => cur \in pull_request_exclusions

\* The states of create_pr_for_repo in their order
PipelineOrder ==
    << "fork", "clone", "branch", "rewrite", "commit_push", "conflict_check", "template",
       "confirm", "create_pr", "record", "cleanup" >>

\* The states after the i-th
LaterStates(i) == {PipelineOrder[j] : j \in (i + 1)..Len(PipelineOrder)}

\* In create_pr_for_repo the states of a repository run in order: the
\* creation call comes only after fork, clone, branch, a rewrite that modified
\* a file, commit and push, a conflict check that found no conflict and, when
\* interactive, a confirmation; after an early exit or a failure no later state
\* of the repository runs.
C25_StatesAreSequential ==
    entry = "creator" =>
        /\ \A i, j \in 1..Len(PipelineOrder) :
              (i < j /\ PipelineOrder[j] \in steps)
              => \/ PipelineOrder[i] \in steps
                 \/ PipelineOrder[i] = "confirm" /\ ~interactive
        /\ (pc = "create_pr" \/ "create_pr" \in steps) =>
              /\ {"fork", "clone", "branch", "rewrite", "commit_push", "conflict_check"}
                     \subseteq steps
              /\ modified_files # {}
              /\ interactive => "confirm" \in steps /\ Confirms(confirmation)
        /\ pc = "create_pr" =>
              should_create_pr(pin_to_sha, find_workflow_yaml_prs(github_prs[cur]))
        /\ outcome = "no_change" => steps \cap LaterStates(4) = {}
        /\ outcome = "existing_pr" => steps \cap LaterStates(6) = {}
        /\ outcome = "declined" => steps \cap LaterStates(8) = {}
        /\ "exit" \in steps => pc \in {"ret", "loop"}

\* A call that ends the pipeline raised: the run is over, no state is entered
C25_NothingRunsAfterFailure ==
    last_fault \notin {"none", "create_fork", "sync_fork"} =>
        entry = "none" /\ pc = "idle" /\ steps = {} /\ cur = NoRepo

C26_TemplateMergeFailureIsNotFatal ==
    last_fault = "merge_with_template" =>
        entry = "creator" /\ pc \in {"confirm", "create_pr"}

\* C27: a fault of the fork creation, also after its retries, or of the fork
\* sync does not end the pipeline: the next state is the clone.
C27_ForkFaultsAreTolerated ==
    last_fault \in {"create_fork", "sync_fork"} =>
        /\ entry # "none"
        /\ pc = "clone"
        /\ "fork" \in steps
        /\ run_end = "none"
        /\ last_fault = "create_fork" => posts.forks = RetryTries

C27_Witness ==
    /\ last_fault = "create_fork"
    /\ pc = "clone"
    /\ posts.forks = RetryTries
    /\ cur \in Repos

-----------------------------------------------------------------------------
(* Properties of update_workflow_files and of the extraction, checked under *)
(* SpecText                                                                 *)

\* C16: under the pin strategy a mention with no resolved commit SHA is skipped:
\* the loop goes on past it, its file is neither pinned nor version-bumped, and
\* it adds no file to the modified set.
C16_PinSkipsMentionWithoutSha ==
    (text_result.op = "update" /\ text_result.pin) =>
        /\ ~text_result.raised
        /\ text_result.files = [f \in FileNames |-> text_args.content]
        /\ text_result.modified_files = {}

\* C18: find_outdated_actions marks no usage outdated whose recorded ref does
\* not begin with "v" or whose line number is -1; a reference found on no raw
\* line is recorded with line -1 and version "Unknown", and no row of the
\* classification comes from it.
C18_OnlyTaggedResolvedUsagesAreOutdated ==
    text_result.op = "extract" =>
        /\ \A row \in text_result.outdated :
              row.is_outdated => /\ row.action_version # <<>>
                                 /\ Head(row.action_version) = "v"
                                 /\ row.line_number # -1
        /\ \A u \in text_result.usage :
              ( u.action_version = <<>> \/ Head(u.action_version) # "v" \/ u.line_number = -1 )
              => ~\E row \in text_result.outdated :
                     /\ row.is_outdated
                     /\ row.filepath = u.filepath
                     /\ row.action_name = u.action_name
                     /\ row.action_version = u.action_version
                     /\ row.line_number = u.line_number
        /\ Contains(text_args.content, LocalStepLine) =>
              \E u \in text_result.usage :
                  /\ u.action_raw = <<"./local">>
                  /\ u.line_number = -1
                  /\ u.action_version = <<"Unknown">>
        /\ \A u \in text_result.usage :
              u.line_number = -1 => u.action_version = <<"Unknown">>

C18_Witness ==
    /\ text_result.op = "extract"
    /\ text_args.content = LocalStepLine \o StepLine("actions/checkout", <<"1">>)
    /\ \E u \in text_result.usage : u.line_number = -1 /\ u.action_version = <<"Unknown">>
    /\ \E u \in text_result.usage : u.line_number = 2 /\ u.action_version = <<"1">>
    /\ text_result.outdated = {}

-----------------------------------------------------------------------------
(* Properties of get_outdated_mentions, checked under SpecQuery *)

\* C19: get_outdated_mentions yields only mentions classified outdated, and
\* none whose repository is on the repository denylist or whose action is on
\* the action denylist, whatever the other tables hold.
C19_OnlyOutdatedAndNotDenied ==
    text_result.op = "query" =>
        \A i \in 1..Len(text_result.mentions) :
            /\ text_result.mentions[i].is_outdated
            /\ text_result.mentions[i].repo_full_name \notin DeniedRepos
            /\ text_result.mentions[i].action_name \notin DeniedActions
            /\ \E row \in outdated_actions :
                  /\ row.is_outdated
                  /\ row.repo_full_name = text_result.mentions[i].repo_full_name
                  /\ row.action_name = text_result.mentions[i].action_name
                  /\ row.line_number = text_result.mentions[i].line_number

C19_Witness ==
    /\ text_result.op = "query"
    /\ Len(text_result.mentions) = 1
    /\ \E row \in outdated_actions : row.is_outdated /\ row.repo_full_name \in DeniedRepos
    /\ \E row \in outdated_actions : row.is_outdated /\ row.action_name \in DeniedActions
                                     /\ row.repo_full_name \notin DeniedRepos

-----------------------------------------------------------------------------
(* Properties of the catalog on one Database handle, checked under         *)
(* SpecHandle                                                              *)

\* The entries handed to save_popular_action so far, one per name with the
\* values of the last call for that name
RECURSIVE SavedSoFar(_)
SavedSoFar(calls) ==
    IF calls = <<>> THEN {}
    ELSE LET last == calls[Len(calls)]
             before == SavedSoFar(SubSeq(calls, 1, Len(calls) - 1))
         IN  IF last.op = "save"
             THEN {x \in before : x.name # last.action.name} \cup {last.action}
             ELSE before

\* C22: on one handle, get_popular_actions returns exactly the entries saved so
\* far that have a latest_major_version, one per name with the last saved
\* values, also when an entry was saved after an earlier get_popular_actions.
C22_GetReturnsWhatWasSaved ==
    db_result.op = "get" =>
        db_result.actions =
            {a \in SavedSoFar(db_calls) : a.latest_major_version # None}

-----------------------------------------------------------------------------
(* Properties of should_create_pr, checked under SpecConflict *)

\* The phrasings of bot updates
BumpPhrases ==
    { <<"bump", " ">>, <<"chore", "(deps):", " ", "bump", " ">>, <<"ci:", " ", "bump", " ">>,
      <<"build:", " ", "bump", " ">>, <<"(deps):", " ", "bump", " ", "actions/">>,
      <<"chore", "(deps):", " ", "update", " ">> }

\* The lower-cased title of the i-th listed pull request
LoweredTitle(i) == lower(text_args.existing_prs[i].title)

\* The pin strategy's predicate and the version strategy's predicate on the
\* i-th listed pull request; the identity of the tool is the login the check
\* names
MatchesPin(i) ==
    \/ Contains(LoweredTitle(i), <<"pin">>) /\ Contains(LoweredTitle(i), <<"sha">>)
    \/ Contains(LoweredTitle(i), <<"commit", " ", "sha">>)
    \/ text_args.existing_prs[i].author = "pgoslatara"

MatchesVersion(i) ==
    \/ \E phrase \in BumpPhrases : Contains(LoweredTitle(i), phrase)
    \/ text_args.existing_prs[i].author = "pgoslatara"

C28_UsageBatchHasNoDuplicates ==
    text_result.op = "extract" =>
        \A i, j \in 1..Len(text_result.written) :
            i # j => text_result.written[i] # text_result.written[j]

-----------------------------------------------------------------------------
(* Properties of the major version of a release tag *)

\* Whether every dot-separated component of s is a non-empty run of digits
RECURSIVE AllComponentsNumeric(_)
AllComponentsNumeric(s) ==
    LET first == SplitFirst(s, ".")
    IN  /\ IsIntLiteral(first)
        /\ Len(first) = Len(s) \/ AllComponentsNumeric(Drop(s, Len(first) + 2))

\* v<major>[.<minor>...]
HasVForm(tag) == tag # <<>> /\ Head(tag) = "v" /\ AllComponentsNumeric(Tail(tag))

\* [v]<major>[.<minor>...]
HasOptionalVForm(tag) == AllComponentsNumeric(StripOne(tag, "v"))

\* "v" and the first component
VMajor(tag) == <<"v">> \o SplitFirst(StripOne(tag, "v"), ".")

\* An entry without a major version is not returned by get_popular_actions,
\* and no usage is classified as outdated on account of one.
EntryWithoutMajorIsIgnored ==
    /\ db_cache.cached =>
          db_cache.actions = {a \in popular_actions : a.latest_major_version # None}
    /\ \A row \in outdated_actions :
          row.is_outdated =>
              \E a \in popular_actions :
                  a.owner_repo = row.action_name /\ a.latest_major_version # None

\* C29: _extract_major_version returns "v<major>" for a tag of the form
\* [v]<major>[.<minor>...], the leading v being optional, and no value for
\* every other tag; a catalog entry without a
\* latest_major_version is never returned by get_popular_actions and never
\* makes a usage of its action outdated.
C29_MajorOfOptionalVForm ==
    /\ text_result.op = "major" =>
          text_result.value = IF HasOptionalVForm(latest_version)
                              THEN VMajor(latest_version) ELSE None
    /\ EntryWithoutMajorIsIgnored

\* A tag without a major version: its entry is not returned and the usage of
\* v1 is recorded as not outdated
C29_Witness ==
    /\ latest_version = <<"v", "2", ".", "1", ".">>
    /\ detected_version = <<"v", "1">>
    /\ text_result.op = "major"
    /\ text_result.value = None
    /\ db_cache.cached
    /\ db_cache.actions = {}
    /\ outdated_actions # {}
    /\ \A row \in outdated_actions : ~row.is_outdated

\* C29 as stated: "v<major>" for a tag of the form v<major>[.<minor>...] and
\* no value for every tag that is not of that form.
C29_MajorOnlyOfVForm ==
    /\ text_result.op = "major" =>
          text_result.value = IF HasVForm(latest_version)
                              THEN VMajor(latest_version) ELSE None
    /\ EntryWithoutMajorIsIgnored

-----------------------------------------------------------------------------
(* Properties of create_branch *)

\* C30: any two branch creations with the same strategy prefix, in one run or
\* in different runs, yield different branch names.
C30_BranchNamesAreUnique ==
    \A i, j \in 1..Len(branches) :
        (i # j /\ branches[i].prefix = branches[j].prefix)
        => branches[i].branch_name # branches[j].branch_name

-----------------------------------------------------------------------------
(* Properties of the two ledgers *)

\* The last record written for a PR URL by the calls made so far
LastSaved(url) ==
    LET at == {i \in 1..Len(db_calls) : db_calls[i].op = "save_pr" /\ db_calls[i].pr.pr_url = url}
    IN  db_calls[CHOOSE i \in at : \A j \in at : j <= i].pr

SavedUrls ==
    {db_calls[i].pr.pr_url : i \in {j \in 1..Len(db_calls) : db_calls[j].op = "save_pr"}}

ExcludedSoFar ==
    {db_calls[i].repo_full_name : i \in {j \in 1..Len(db_calls) : db_calls[j].op = "exclude"}}

\* C31: after any sequence of add_repo_to_pr_exclusions and save_pr_record
\* calls the exclusion ledger holds one row for each repository that was added
\* and the status ledger one row per PR URL, the last one written; a write that
\* repeats the one before it leaves both ledgers as they were.
C31_LedgerWritesAreUpserts ==
    /\ pull_request_exclusions = ExcludedSoFar
    /\ \A x, y \in pull_requests : x.pr_url = y.pr_url => x = y
    /\ pull_requests = {LastSaved(url) : url \in SavedUrls}
    /\ (Len(db_calls) >= 2 /\ db_calls[Len(db_calls)] = db_calls[Len(db_calls) - 1])
       => /\ db_result.exclusions = pull_request_exclusions
          /\ db_result.records = pull_requests

\* A status row that was replaced by a later write for the same PR URL, and
\* the same write once more
C31_Witness ==
    /\ Len(db_calls) = 3
    /\ db_calls[1].op = "save_pr" /\ db_calls[1].pr.status = "open"
    /\ db_calls[2].op = "save_pr" /\ db_calls[2].pr.status = "closed"
    /\ db_calls[2].pr.pr_url = db_calls[1].pr.pr_url
    /\ db_calls[3] = db_calls[2]
    /\ Cardinality(pull_requests) = 1

-----------------------------------------------------------------------------
(* Properties of fetch_repos and scan_repos *)

NoCatalogEntries == popular_actions = {}

NoRepositoryList == popular_repositories = {}

NoCheckoutsDirectory == ~temp_files[ClonedRepos].exists

InPool == {r \in PoolRepos : pool[r].at # "none"}

-----------------------------------------------------------------------------
(* Properties of PR_TRACKER.md *)

\* The position of the status in a row, and the row of the i-th created PR
StatusAt(line) == Len(line) - 3

RowOfPr(i) == Len(TrackerHeader) + i

\* The row carries the date, the repository and the URL of the record
RowCarries(line, pr) ==
    /\ line[3] = pr.created_at
    /\ line[7] = pr.repo_full_name
    /\ SubSeq(line, 12, 11 + Len(pr.pr_url)) = pr.pr_url

\* One row per created PR, in the order of creation
OneRowPerCreatedPr ==
    /\ text_args.created = <<>> => tracker = <<>>
    /\ text_args.created # <<>> =>
          /\ Len(tracker) = Len(TrackerHeader) + Len(text_args.created)
          /\ \A i \in 1..Len(text_args.created) :
                RowCarries(tracker[RowOfPr(i)], text_args.created[i])

\* update_tracker: every line there was stays, one row is appended
AppendsOneRow ==
    /\ tracker # <<>> => /\ Len(tracker') = Len(tracker) + 1
                         /\ SubSeq(tracker', 1, Len(tracker)) = tracker
    /\ tracker'[Len(tracker')][StatusAt(tracker'[Len(tracker')])] = "open"

\* update_pr_statuses: the same lines in the same order, each differing from
\* what it was in its status at most; the status is the polled one where the
\* poll answered and the old one where it failed or was not made
RefreshesStatusOnly ==
    /\ Len(tracker') = Len(tracker)
    /\ \A i \in 1..Len(tracker) :
          /\ Len(tracker'[i]) = Len(tracker[i])
          /\ \A k \in 1..Len(tracker[i]) :
                k # StatusAt(tracker[i]) => tracker'[i][k] = tracker[i][k]
          /\ i <= Len(TrackerHeader) => tracker'[i] = tracker[i]
          /\ i > Len(TrackerHeader) =>
                LET url == text_args.created[i - Len(TrackerHeader)].pr_url
                    answered == url \in GithubUrls /\ text_result'.poll[url].exists
                IN  tracker'[i][StatusAt(tracker[i])] =
                        IF ~answered THEN tracker[i][StatusAt(tracker[i])]
                        ELSE IF text_result'.poll[url].merged THEN "merged"
                        ELSE text_result'.poll[url].state

\* C33: the tracker holds one row per created PR after any sequence of
\* update_tracker and update_pr_statuses calls; update_tracker appends one row
\* and changes no existing line, update_pr_statuses keeps the number and the
\* order of the rows and changes nothing but the status of a row, to the
\* polled state, and leaves the row as it is when its poll fails.
C33_TrackerIsAppendOnlyButForStatus ==
    [][ /\ OneRowPerCreatedPr'
        /\ text_args' # text_args => AppendsOneRow
        /\ text_args' = text_args => RefreshesStatusOnly ]_vars

\* Two rows after a refresh: the first was found merged, the poll of the
\* second failed and it still reads open
C33_Witness ==
    /\ Len(text_args.created) = 2
    /\ text_args.created[1].pr_url \in GithubUrls
    /\ text_args.created[2].pr_url \in GithubUrls
    /\ text_args.created[2].pr_url # text_args.created[1].pr_url
    /\ text_result.op = "update_pr_statuses"
    /\ ~text_result.poll[text_args.created[2].pr_url].exists
    /\ tracker[RowOfPr(1)][StatusAt(tracker[RowOfPr(1)])] = "merged"
    /\ tracker[RowOfPr(2)][StatusAt(tracker[RowOfPr(2)])] = "open"

-----------------------------------------------------------------------------
(* What the processing of one repository leaves alone *)

\* The rows of the tracker that are about repository r, in order
RECURSIVE RowsAbout(_, _)
RowsAbout(rows, r) ==
    IF rows = <<>> THEN <<>>
    ELSE (IF Head(rows).repo_full_name = r THEN <<Head(rows)>> ELSE <<>>)
         \o RowsAbout(Tail(rows), r)

\* What is recorded for repository r in the three ledgers
RecordedFor(r, records, rows, exclusions) ==
    [ status   |-> {x \in records : x.repo_full_name = r},
      tracked  |-> RowsAbout(rows, r),
      excluded |-> r \in exclusions ]

\* C34: no step of the processing of a repository changes or removes a PR
\* status record, a tracker row or an exclusion record of another repository,
\* so that a batch that stops or aborts at a later repository leaves what was
\* recorded for the finished ones.
C34_OtherRepositoriesAreLeftAlone ==
    [][ \A r \in Repos :
          (r # cur /\ r # cur') =>
              RecordedFor(r, pull_requests', tracker', pull_request_exclusions')
              = RecordedFor(r, pull_requests, tracker, pull_request_exclusions) ]_vars

\* The batch aborted after both repositories were started, the second without
\* a record; the first has its status record, its tracker row and its exclusion
C34_Witness ==
    /\ run_end = "raised"
    /\ last_fault # "none"
    /\ attempted = Repos
    /\ RecordedFor("o/r1", pull_requests, tracker, pull_request_exclusions).status # {}
    /\ RecordedFor("o/r1", pull_requests, tracker, pull_request_exclusions).tracked # <<>>
    /\ "o/r1" \in pull_request_exclusions
    /\ "o/r2" \notin pull_request_exclusions

-----------------------------------------------------------------------------
(* What classification writes *)

\* The tables classification reads or has no business with
ClassificationFrame ==
    <<pull_request_exclusions, pull_requests, popular_actions, action_tags, action_usage>>

\* C36: find_outdated_actions writes the classification result table and
\* nothing else, get_outdated_mentions (the query that starts an orchestrator)
\* writes no table at all, and the exclusion ledger and the PR status ledger
\* change only in steps of an orchestrator.
C36_ClassificationWritesOnlyItsResult ==
    [][ /\ (outdated_actions' # outdated_actions) => UNCHANGED ClassificationFrame
        /\ (entry = "none" /\ runs' # runs)
               => UNCHANGED <<ClassificationFrame, outdated_actions>>
        /\ (entry = "none") => UNCHANGED <<pull_request_exclusions, pull_requests>> ]_vars

\* Classification has produced outdated rows from a usage batch that is still
\* there, next to a ledger that holds an exclusion and a PR status record
C36_Witness ==
    /\ entry = "none"
    /\ \E x \in outdated_actions : x.is_outdated = TRUE
    /\ action_usage # {}
    /\ pull_request_exclusions # {}
    /\ pull_requests # {}

-----------------------------------------------------------------------------
(* update_workflow_files on a mention no substitution applies to *)

\* C37: a mention with no commit SHA and an empty latest_version leaves its
\* file unchanged and outside the modified set: the file never receives the
\* content computed for an earlier mention of the batch.
C37_UnresolvedMentionLeavesItsFile ==
    (text_result.op = "batch") =>
        /\ text_result.files[ReleaseFile] = text_result.before[ReleaseFile]
        /\ PrPath(ScanPath("o/r1", ReleaseFile)) \notin text_result.modified_files

-----------------------------------------------------------------------------
(* The commit a pinned reference is written with *)

\* The rows of the tag index for the tag a mention detected
DetectedTagRows(m) ==
    {t \in action_tags : t.action_name = m.action_name /\ t.tag = m.detected_version}

\* C38: the commit SHA a classified mention carries is the tag index's commit
\* of the action's detected tag, not of its latest version; a mention whose
\* (action, detected tag) has no row of the tag index carries none.
C38_MentionCarriesCommitOfDetectedTag ==
    (text_result.op = "query" /\ ~text_result.raised) =>
        \A i \in 1..Len(text_result.mentions) :
            LET m == text_result.mentions[i]
            IN  IF DetectedTagRows(m) = {}
                THEN CarriedCommitSha(m) = None
                ELSE \E t \in DetectedTagRows(m) : CarriedCommitSha(m) = t.commit_sha

-----------------------------------------------------------------------------
(* The command create_prs against PullRequestCreator.create_prs *)

\* What a returned run of PullRequestCreator.create_prs leaves of every
\* repository it processed: the repository is excluded (by record_pr or by
\* mark_repo_excluded) and its working checkout is removed
LeftAsTheCreatorLeavesIt(r) ==
    /\ r \in pull_request_exclusions
    /\ ~pr_dir[r].exists

\* C39: the command create_prs and PullRequestCreator.create_prs leave the same
\* exclusion ledger, PR status records and local checkouts on every batch and
\* every behaviour of the environment; so a returned run of either has left
\* each repository it processed as the creator leaves it.
C39_CommandAndCreatorLeaveTheSame ==
    (entry = "none" /\ run_end = "returned") =>
        \A r \in attempted : LeftAsTheCreatorLeavesIt(r)

-----------------------------------------------------------------------------
(* The strategy fields of a PullRequestCreator, checked under SpecOverride *)

\* C40: a call of create_pr_for_repo with a pin_to_sha argument leaves
\* pin_to_sha and mode as they were before the call, whether it returns or
\* raises, and whenever no call is in progress mode is PIN_TO_SHA exactly when
\* pin_to_sha is true.
C40_OverrideIsRestoredOnEveryExit ==
    (creator_call.at = "idle") =>
        /\ (mode = "pin_to_sha") <=> pin_to_sha
        /\ (creator_call.op = "create_pr_for_repo" /\ creator_call.override.given) =>
               Fields = creator_call.before

\* create_pr_for_repo was called with an argument opposite to the field and
\* was left by an exception
C40_Witness ==
    /\ creator_call.at = "idle"
    /\ creator_call.op = "create_pr_for_repo"
    /\ creator_call.override.given
    /\ creator_call.override.value # creator_call.before.pin_to_sha
    /\ creator_call.exit = "error"

====
